---- MODULE Spec2Model ----
(***************************************************************************)
(* Model of the deployment context of auth0-deploy-cli (src/context.js):   *)
(* the seven directory collectors, their bounded-concurrency content       *)
(* loading, getChanges (file mode / directory mode) and Context.init.      *)
(*                                                                         *)
(* A file name is the sequence of its dot-separated segments               *)
(* ("a.meta.json" is <<"a","meta","json">>, ".DSStore" is <<"",           *)
(* "DSStore">>); a path is a record [dir, conn, file] below the resolved  *)
(* input path.  JavaScript values carry a tag t so that undefined, null,   *)
(* {} and [] stay distinct.                                                *)
(***************************************************************************)
EXTENDS Integers, Sequences, FiniteSets, TLC

(* ------------------------------------------------------------------ *)
(* Bounds of the model                                                   *)
(* ------------------------------------------------------------------ *)
MaxPresent == 2
MaxFiles == 4
MaxConns == 2
MaxConnFiles == 2
MaxDocKeys == 2

(* ------------------------------------------------------------------ *)
(* Constants of the extension-tools library, as the code uses them      *)
(* ------------------------------------------------------------------ *)
Types == {"rules", "pages", "databases", "clients", "resourceServers",
          "emailTemplates", "emailProviders"}

SingleLevel == Types \ {"databases"}

RULES_DIRECTORY == "rules"
PAGES_DIRECTORY == "pages"
DATABASE_CONNECTIONS_DIRECTORY == "database-connections"
CLIENTS_DIRECTORY == "clients"
RESOURCE_SERVERS_DIRECTORY == "resource-servers"
EMAIL_TEMPLATES_DIRECTORY == "emails"
EMAIL_PROVIDERS_DIRECTORY == "email-providers"

PAGE_NAMES ==
  { <<n, e>> : n \in {"guardian_multifactor", "password_reset", "login", "error_page"},
               e \in {"html", "json"} }

EMAIL_TEMPLATE_FILENAMES ==
  { <<n, e>> : n \in {"verify_email", "reset_email", "welcome_email", "blocked_account"},
               e \in {"html", "json"} }

EMAIL_PROVIDER_FILENAME == <<"default", "json">>

DATABASE_SCRIPTS ==
  <<"get_user", "create", "verify", "login", "change_password", "delete", "change_email">>

(* the fixed degree of every Promise.map of the collectors *)
Concurrency == 2

(* ------------------------------------------------------------------ *)
(* JavaScript values                                                     *)
(* ------------------------------------------------------------------ *)
Undefined == [t |-> "undefined"]
JSNull == [t |-> "null"]
MapVal(f) == [t |-> "map", v |-> f]
SeqVal(s) == [t |-> "seq", v |-> s]
EmptyMap == MapVal(<<>>)
EmptySeq == SeqVal(<<>>)

Falsy(x) == x.t \in {"undefined", "null"}

(* a || b that keeps a whatever it is *)
OrElse_NoDefault(a, b) == a

(* a || b *)
OrElse(a, b) == IF Falsy(a) THEN b ELSE a

Range(s) == { s[i] : i \in DOMAIN s }

Last(s) == s[Len(s)]

Front(s) == SubSeq(s, 1, Len(s) - 1)

(* String.prototype.toLowerCase on the extensions the pools use *)
ToLower(x) ==
  CASE x = "JS" -> "js"
    [] x = "JSON" -> "json"
    [] x = "Js" -> "js"
    [] OTHER -> x

(* ------------------------------------------------------------------ *)
(* path.parse, path.join, path.resolve                                   *)
(* ------------------------------------------------------------------ *)
(* path.parse(f).ext: the last segment, unless the only dot leads the name *)
HasExt(f) == Len(f) >= 2 /\ ~(Len(f) = 2 /\ f[1] = "")

ParseExt(f) == IF HasExt(f) THEN <<Last(f)>> ELSE <<>>

ParseName(f) == IF HasExt(f) THEN Front(f) ELSE f

NoFile == <<>>
NoConn == <<>>

(* path.join(dirPath, fileName) and path.join(dirPath, dirName, fileName),
   dirPath being path.join(fullPath, <directory constant>) *)
JoinPath(root, dir, conn, file) == [root |-> root, dir |-> dir, conn |-> conn, file |-> file]

Cwd == <<"cwd">>

(* the path as given, not resolved *)
Resolve_AsGiven(p) == p.comps

(* path.resolve(filePath): a relative path is put below the working directory *)
Resolve(p) == IF p.abs THEN p.comps ELSE Cwd \o p.comps

DirOf(t) ==
  CASE t = "rules" -> RULES_DIRECTORY
    [] t = "pages" -> PAGES_DIRECTORY
    [] t = "databases" -> DATABASE_CONNECTIONS_DIRECTORY
    [] t = "clients" -> CLIENTS_DIRECTORY
    [] t = "resourceServers" -> RESOURCE_SERVERS_DIRECTORY
    [] t = "emailTemplates" -> EMAIL_TEMPLATES_DIRECTORY
    [] t = "emailProviders" -> EMAIL_PROVIDERS_DIRECTORY

(* ------------------------------------------------------------------ *)
(* Classification of the files of a listing                              *)
(* ------------------------------------------------------------------ *)
NoBucket == [name |-> <<>>, field |-> "skip"]

(* isPage without the whitelist: every file of the pages directory is a page *)
isPage_AnyName(p) == p.dir = PAGES_DIRECTORY

isPage(p) == p.dir = PAGES_DIRECTORY /\ p.file \in PAGE_NAMES

isEmailTemplate(p) == p.dir = EMAIL_TEMPLATES_DIRECTORY /\ p.file \in EMAIL_TEMPLATE_FILENAMES

(* isEmailProvider that accepts every .json file of the directory *)
isEmailProvider_AnyJson(p) == p.dir = EMAIL_PROVIDERS_DIRECTORY /\ ParseExt(p.file) = <<"json">>

isEmailProvider(p) == p.dir = EMAIL_PROVIDERS_DIRECTORY /\ p.file = EMAIL_PROVIDER_FILENAME

(* ClassifyRule without the skip: a file that is not .json counts as a script *)
ClassifyRule_NoSkip(p) ==
  [name |-> ParseName(p.file),
   field |-> IF ParseExt(p.file) = <<"json">> THEN "metadataFileName" ELSE "scriptFileName"]

(* getRules, the body of files.forEach *)
ClassifyRule(p) ==
  LET ext == ParseExt(p.file) IN
  IF ext # <<"js">> /\ ext # <<"json">> THEN NoBucket
  ELSE [name |-> ParseName(p.file),
        field |-> IF ext = <<"js">> THEN "scriptFileName" ELSE "metadataFileName"]

(* configurableName.endsWith('.meta') *)
EndsWithMeta(n) == Len(n) >= 2 /\ Last(n) = "meta"

(* ClassifyConfigurable without the test for meta files: every .json file is a
   config named after its base name *)
ClassifyConfigurable_NoMeta(p) ==
  IF ParseExt(p.file) # <<"json">> THEN NoBucket
  ELSE [name |-> ParseName(p.file), field |-> "configFileName"]

(* getConfigurableConfigs, the body of files.forEach *)
ClassifyConfigurable(p) ==
  LET ext == ParseExt(p.file)
      n == ParseName(p.file)
  IN  IF ext # <<"json">> THEN NoBucket
      ELSE IF EndsWithMeta(n) THEN [name |-> ParseName(n), field |-> "metadataFileName"]
      ELSE [name |-> n, field |-> "configFileName"]

(* getPages, the body of files.forEach *)
ClassifyPage(p) ==
  IF isPage(p)
  THEN [name |-> ParseName(p.file),
        field |-> IF ParseExt(p.file) # <<"json">> THEN "fileName" ELSE "metaFileName"]
  ELSE NoBucket

(* getEmailTemplates, the body of files.forEach *)
ClassifyEmailTemplate(p) ==
  IF isEmailTemplate(p)
  THEN [name |-> ParseName(p.file),
        field |-> IF ParseExt(p.file) # <<"json">> THEN "fileName" ELSE "metaFileName"]
  ELSE NoBucket

(* getEmailProviders, the body of files.forEach *)
ClassifyEmailProvider(p) ==
  IF isEmailProvider(p) THEN [name |-> ParseName(p.file), field |-> "fileName"] ELSE NoBucket

Classify(t, p) ==
  CASE t = "rules" -> ClassifyRule(p)
    [] t \in {"clients", "resourceServers"} -> ClassifyConfigurable(p)
    [] t = "pages" -> ClassifyPage(p)
    [] t = "emailTemplates" -> ClassifyEmailTemplate(p)
    [] t = "emailProviders" -> ClassifyEmailProvider(p)

(* /\.js$/i.test(baseFileName), /\.json$/i.test(baseFileName) *)
EndsWithExtI(f, e) == Len(f) >= 2 /\ ToLower(Last(f)) = e

NoDetails == [database |-> NoConn, name |-> <<>>, kind |-> "null"]

(* getDatabaseFileDetails without the whitelist: every .js file is a script and
   every .json file a configuration *)
getDatabaseFileDetails_NoWhitelist(p) ==
  IF p.dir = DATABASE_CONNECTIONS_DIRECTORY
     /\ (EndsWithExtI(p.file, "js") \/ EndsWithExtI(p.file, "json"))
  THEN IF EndsWithExtI(p.file, "js")
       THEN [database |-> p.conn, name |-> ParseName(p.file), kind |-> "script"]
       ELSE [database |-> p.conn, name |-> <<>>, kind |-> "configuration"]
  ELSE NoDetails

(* getDatabaseFileDetails: kind "script" is isScript: true, kind "configuration"
   is isScript: false, kind "null" is the null result *)
getDatabaseFileDetails(p) ==
  IF p.dir = DATABASE_CONNECTIONS_DIRECTORY
     /\ (EndsWithExtI(p.file, "js") \/ EndsWithExtI(p.file, "json"))
  THEN LET isScript == EndsWithExtI(p.file, "js")
           scriptName == ParseName(p.file)
       IN  IF isScript
           THEN IF Len(scriptName) = 1 /\ scriptName[1] \in Range(DATABASE_SCRIPTS)
                THEN [database |-> p.conn, name |-> ParseName(scriptName), kind |-> "script"]
                ELSE NoDetails
           ELSE IF scriptName = <<"configuration">>
                THEN [database |-> p.conn, name |-> <<>>, kind |-> "configuration"]
                ELSE NoDetails
  ELSE NoDetails

(* ------------------------------------------------------------------ *)
(* Accumulators: the objects rules, configurables, pages, templates,     *)
(* providers (name -> file names) and databases (name -> scripts,        *)
(* configurationFileName); keys is Object.keys of the accumulator        *)
(* ------------------------------------------------------------------ *)
Set(e, k, v) == (k :> v) @@ e

EmptyAcc == [keys |-> <<>>, files |-> <<>>]

(* AddFile that starts the bucket anew on every file: rules[ruleName] = {} *)
AddFile_Overwrites(a, b, p) ==
  IF b.field = "skip" THEN a
  ELSE [keys |-> IF b.name \in Range(a.keys) THEN a.keys ELSE Append(a.keys, b.name),
        files |-> Set(a.files, b.name, (b.field :> p))]

(* rules[ruleName] = rules[ruleName] || {}; rules[ruleName].<field> = path *)
AddFile(a, b, p) ==
  IF b.field = "skip" THEN a
  ELSE IF b.name \in Range(a.keys)
       THEN [a EXCEPT !.files = Set(a.files, b.name, Set(a.files[b.name], b.field, p))]
       ELSE [keys |-> Append(a.keys, b.name),
             files |-> Set(a.files, b.name, (b.field :> p))]

RECURSIVE ClassifyAll(_, _, _, _)
(* files.forEach(...) of a single-level collector over the listing l *)
ClassifyAll(t, root, l, a) ==
  IF l = <<>> THEN a
  ELSE LET p == JoinPath(root, DirOf(t), NoConn, Head(l).file)
       IN  ClassifyAll(t, root, Tail(l), AddFile(a, Classify(t, p), p))

NoPath == JoinPath(<<>>, "", NoConn, NoFile)

(* AddDbFile that opens a connection on a script only: a configuration file is
   recorded when the connection already has a script *)
AddDbFile_ConfigNeedsScript(a, d, p) ==
  IF d.kind = "null" \/ (d.kind = "configuration" /\ d.database \notin Range(a.keys)) THEN a
  ELSE LET cur == IF d.database \in Range(a.keys) THEN a.files[d.database]
                  ELSE [scripts |-> <<>>, configurationFileName |-> NoPath]
           new == IF d.kind = "script"
                  THEN [cur EXCEPT !.scripts = Append(@, [name |-> d.name, scriptFileName |-> p])]
                  ELSE [cur EXCEPT !.configurationFileName = p]
       IN  [keys |-> IF d.database \in Range(a.keys) THEN a.keys ELSE Append(a.keys, d.database),
            files |-> Set(a.files, d.database, new)]

(* databases[details.database] = databases[details.database] || { scripts: [] }; ... *)
AddDbFile(a, d, p) ==
  IF d.kind = "null" THEN a
  ELSE LET cur == IF d.database \in Range(a.keys) THEN a.files[d.database]
                  ELSE [scripts |-> <<>>, configurationFileName |-> NoPath]
           new == IF d.kind = "script"
                  THEN [cur EXCEPT !.scripts = Append(@, [name |-> d.name, scriptFileName |-> p])]
                  ELSE [cur EXCEPT !.configurationFileName = p]
       IN  [keys |-> IF d.database \in Range(a.keys) THEN a.keys ELSE Append(a.keys, d.database),
            files |-> Set(a.files, d.database, new)]

RECURSIVE ClassifyDbAll(_, _, _, _)
(* files.forEach(...) of one connection directory c over its listing l *)
ClassifyDbAll(root, c, l, a) ==
  IF l = <<>> THEN a
  ELSE LET p == JoinPath(root, DATABASE_CONNECTIONS_DIRECTORY, c, Head(l).file)
       IN  ClassifyDbAll(root, c, Tail(l), AddDbFile(a, getDatabaseFileDetails(p), p))

(* ------------------------------------------------------------------ *)
(* Errors: e.code and e.message of a failed lstat, readdir or readFile,  *)
(* and the labelled Error the collectors build from e.message            *)
(* ------------------------------------------------------------------ *)
FsError(code, syscall, p) ==
  [code |-> code, message |-> [kind |-> "fs", code |-> code, syscall |-> syscall, path |-> p]]

(* new Error(prefix + path + suffix + message): an Error has no code *)
NewError(prefix, p, suffix, message) ==
  [code |-> "none",
   message |-> [kind |-> "text", prefix |-> prefix, path |-> p, suffix |-> suffix,
                cause |-> message]]

(* one template for the seven types: "Couldn't process the <type> directory because: " *)
Label_Uniform(t) ==
  "Couldn't process the "
    \o (CASE t = "rules" -> "rules"
          [] t = "clients" -> "client"
          [] t = "resourceServers" -> "resource server"
          [] t = "databases" -> "database scripts"
          [] t = "pages" -> "pages"
          [] t = "emailTemplates" -> "email templates"
          [] t = "emailProviders" -> "email providers")
    \o " directory because: "

Label(t) ==
  CASE t = "rules" -> "Couldn't process the rules directory because: "
    [] t = "clients" -> "Couldn't process client directory because: "
    [] t = "resourceServers" -> "Couldn't process resource server directory because: "
    [] t = "databases" -> "Couldn't process database scripts directory because: "
    [] t = "pages" -> "Couldn't process pages directory because: "
    [] t = "emailTemplates" -> "Couldn't process the email templates directory because: "
    [] t = "emailProviders" -> "Couldn't process the email providers directory because: "

(* ------------------------------------------------------------------ *)
(* Entities: processRule, processConfigurableConfig, processPage,        *)
(* processEmailProvider, readDatabaseFiles                               *)
(* ------------------------------------------------------------------ *)
(* the text readFile yields for the file at p *)
Content(p) == [text |-> p]

(* the object a mapper starts from *)
NewEntity(t, n) ==
  CASE t = "rules" -> [script |-> FALSE, metadata |-> FALSE, name |-> n]
    [] t \in {"pages", "emailTemplates"} -> [metadata |-> FALSE, name |-> n]
    [] t \in {"clients", "resourceServers", "emailProviders"} -> [name |-> n]
    [] t = "databases" -> [name |-> n, scripts |-> <<>>]

(* the readFile calls one mapper issues for entity number i *)
ReadsOf(t, i, b) ==
  IF t = "databases"
  THEN { [ent |-> i, field |-> "script", path |-> b.scripts[k].scriptFileName,
          sname |-> b.scripts[k].name] : k \in DOMAIN b.scripts }
       \cup (IF b.configurationFileName # NoPath
             THEN {[ent |-> i, field |-> "configurationFileName",
                    path |-> b.configurationFileName, sname |-> <<>>]}
             ELSE {})
  ELSE { [ent |-> i, field |-> f, path |-> b[f], sname |-> <<>>] : f \in DOMAIN b }

(* ApplyRead that reads the metadata files and keeps nothing of them *)
ApplyRead_DropsMetadata(t, e, r) ==
  LET c == Content(r.path) IN
  CASE r.field = "scriptFileName" -> Set(Set(e, "script", TRUE), "scriptFile", c)
    [] r.field \in {"metadataFileName", "metaFileName"} -> e
    [] r.field = "configFileName" -> Set(e, "configFile", c)
    [] r.field = "fileName" /\ t = "emailProviders" -> Set(e, "configFile", c)
    [] r.field = "fileName" /\ t # "emailProviders" -> Set(e, "htmlFile", c)
    [] r.field = "script" ->
         Set(e, "scripts", Append(e["scripts"], [name |-> r.sname, scriptFile |-> c]))
    [] r.field = "configurationFileName" ->
         Set(Set(e, "configurationFile", c), "configurationFileName", r.path)

(* ApplyRead keeping one script per connection: the list is replaced, not extended *)
ApplyRead_KeepsLast(t, e, r) ==
  LET c == Content(r.path) IN
  CASE r.field = "script" -> Set(e, "scripts", <<[name |-> r.sname, scriptFile |-> c]>>)
    [] r.field = "configurationFileName" ->
         Set(Set(e, "configurationFile", c), "configurationFileName", r.path)
    [] r.field = "scriptFileName" -> Set(Set(e, "script", TRUE), "scriptFile", c)
    [] r.field = "metadataFileName" /\ t = "rules" ->
         Set(Set(e, "metadata", TRUE), "metadataFile", c)
    [] r.field = "metadataFileName" /\ t # "rules" -> Set(e, "metadataFile", c)
    [] r.field = "configFileName" -> Set(e, "configFile", c)
    [] r.field = "fileName" /\ t = "emailProviders" -> Set(e, "configFile", c)
    [] r.field = "fileName" /\ t # "emailProviders" -> Set(e, "htmlFile", c)
    [] r.field = "metaFileName" -> Set(Set(e, "metadata", TRUE), "metadataFile", c)

(* the then-callback of one readFile, on the entity e *)
ApplyRead(t, e, r) ==
  LET c == Content(r.path) IN
  CASE r.field = "scriptFileName" -> Set(Set(e, "script", TRUE), "scriptFile", c)
    [] r.field = "metadataFileName" /\ t = "rules" ->
         Set(Set(e, "metadata", TRUE), "metadataFile", c)
    [] r.field = "metadataFileName" /\ t # "rules" -> Set(e, "metadataFile", c)
    [] r.field = "configFileName" -> Set(e, "configFile", c)
    [] r.field = "fileName" /\ t = "emailProviders" -> Set(e, "configFile", c)
    [] r.field = "fileName" /\ t # "emailProviders" -> Set(e, "htmlFile", c)
    [] r.field = "metaFileName" -> Set(Set(e, "metadata", TRUE), "metadataFile", c)
    [] r.field = "script" ->
         Set(e, "scripts", Append(e["scripts"], [name |-> r.sname, scriptFile |-> c]))
    [] r.field = "configurationFileName" ->
         Set(Set(e, "configurationFile", c), "configurationFileName", r.path)

RECURSIVE ApplyReads(_, _, _)
(* Promise.all(fileProcesses).then(() => entity): the entity once every read of
   rs has completed *)
ApplyReads(t, e, rs) ==
  IF rs = {} THEN e
  ELSE LET r == CHOOSE x \in rs : TRUE IN ApplyReads(t, ApplyRead(t, e, r), rs \ {r})

(* what a single-level collector resolves with on the listing l of readable
   files: one entity per key, in key order *)
FinalResult(t, root, l) ==
  LET a == ClassifyAll(t, root, l, EmptyAcc) IN
  [i \in 1..Len(a.keys) |->
     ApplyReads(t, NewEntity(t, a.keys[i]), ReadsOf(t, i, a.files[a.keys[i]]))]

(* ------------------------------------------------------------------ *)
(* unifyScripts and unifyDatabases of the extension-tools library        *)
(* ------------------------------------------------------------------ *)
(* a text with the mappings applied to it *)
Subst(c, m) == [text |-> c.text, mappings |-> m]

TextFields == {"scriptFile", "metadataFile", "configFile", "htmlFile", "configurationFile"}

SubstEntity(e, m) ==
  [k \in DOMAIN e |-> IF k \in TextFields THEN Subst(e[k], m) ELSE e[k]]

(* last entity named n of the sequence s wins *)
LastNamed(s, n) == s[CHOOSE i \in DOMAIN s : s[i].name = n /\ \A j \in DOMAIN s : s[j].name = n => j <= i]

(* unifyScripts(data, mappings): a mapping keyed by entity name *)
unifyScripts(data, m) ==
  IF data.t # "seq" THEN EmptyMap
  ELSE MapVal([n \in { e.name : e \in Range(data.v) } |-> SubstEntity(LastNamed(data.v, n), m)])

(* the scripts of one connection, keyed by script name *)
UnifyDbScripts(ss, m) ==
  [n \in { x.name : x \in Range(ss) } |->
     [name |-> n, scriptFile |-> Subst(LastNamed(ss, n).scriptFile, m)]]

(* unifyDatabases(data, mappings): a sequence of connections *)
unifyDatabases(data, m) ==
  IF data.t # "seq" THEN EmptySeq
  ELSE SeqVal([i \in DOMAIN data.v |->
         LET e == data.v[i] IN
         IF "configurationFile" \in DOMAIN e
         THEN [name |-> e.name, scripts |-> UnifyDbScripts(e.scripts, m),
               configuration |-> Subst(e.configurationFile, m)]
         ELSE [name |-> e.name, scripts |-> UnifyDbScripts(e.scripts, m)]])

(* ------------------------------------------------------------------ *)
(* The file system the program runs against                              *)
(* ------------------------------------------------------------------ *)
(* a directory entry: its name and what readFile does on it ("ok", or the
   code it fails with: ENOENT for a dangling link, EISDIR for a directory) *)
F(f) == [file |-> f, rd |-> "ok"]
Bad(f, code) == [file |-> f, rd |-> code]

(* what readdir does on a path: st is "ok" or the code it fails with *)
Dir(l) == [st |-> "ok", files |-> l]
NoDir(code) == [st |-> code, files |-> <<>>]

RECURSIVE Listings(_, _)
(* the listings of at most n entries with distinct names drawn from pool *)
Listings(pool, n) ==
  IF n = 0 THEN {<<>>}
  ELSE LET prev == Listings(pool, n - 1)
       IN  prev \cup UNION { { Append(l, e) :
                                 e \in { y \in pool : \A i \in DOMAIN l : l[i].file # y.file } } :
                             l \in { x \in prev : Len(x) = n - 1 } }

Pool(t) ==
  CASE t = "rules" ->
         {F(<<"a", "js">>), F(<<"a", "json">>), F(<<"b", "js">>), F(<<"c", "js">>),
          Bad(<<"c", "js">>, "ENOENT"), Bad(<<"c", "js">>, "EISDIR"), F(<<"README", "md">>)}
    [] t = "pages" ->
         {F(<<"login", "html">>), F(<<"login", "json">>), F(<<"error_page", "html">>),
          F(<<"password_reset", "json">>), Bad(<<"password_reset", "json">>, "ENOENT"),
          F(<<"login2", "html">>)}
    [] t = "emailTemplates" ->
         {F(<<"verify_email", "html">>), F(<<"verify_email", "json">>),
          F(<<"reset_email", "html">>), Bad(<<"reset_email", "html">>, "EISDIR"),
          Bad(<<"README", "md">>, "EISDIR")}
    [] t \in {"clients", "resourceServers"} ->
         {F(<<"a", "json">>), F(<<"a", "meta", "json">>), F(<<"b", "json">>),
          Bad(<<"b", "json">>, "ENOENT"), F(<<"c", "meta", "json">>), F(<<"README", "md">>),
          F(<<"", "meta", "json">>)}
    [] t = "emailProviders" ->
         {F(<<"default", "json">>), Bad(<<"default", "json">>, "EISDIR"),
          F(<<"smtp", "json">>), Bad(<<"README", "md">>, "EISDIR")}

(* the entries of the connections root: two connection directories and a plain file *)
ConnNames == {<<"db1">>, <<"db2">>, <<"", "DSStore">>}

ConnPool(c) ==
  CASE c = <<"db1">> ->
         {F(<<"login", "js">>), F(<<"create", "js">>), F(<<"login", "JS">>),
          F(<<"junk", "json">>), Bad(<<"create", "js">>, "ENOENT")}
    [] c = <<"db2">> ->
         {F(<<"get_user", "js">>), F(<<"configuration", "json">>), Bad(<<"junk", "js">>, "EISDIR"),
          Bad(<<"get_user", "js">>, "EISDIR")}
    [] OTHER -> {}

(* what readdir does on the entry c of the connections root *)
ConnDirs(c, n) ==
  IF c = <<"", "DSStore">> THEN {NoDir("ENOTDIR")}
  ELSE { Dir(l) : l \in Listings(ConnPool(c), n) }

AllAbsent == [t \in Types |-> NoDir("ENOENT")]

NoDoc == [kind |-> "none", v |-> <<>>]

(* the input paths handed to the constructor *)
FileNames == {[abs |-> FALSE, comps |-> <<"local", "data">>],
              [abs |-> TRUE, comps |-> <<"srv", "data">>]}

Mappings1 == MapVal(("hello" :> "goodbye"))
Mappings2 == MapVal(("hello" :> "welcome"))

MkFs(fileName, lstat, target, doc, dirs, conns) ==
  [fileName |-> fileName, lstat |-> lstat, target |-> target, doc |-> doc,
   dirs |-> dirs, conns |-> conns]

RECURSIVE ConnMaps(_, _)
(* every assignment of a listing outcome to the entries cs of the connections root *)
ConnMaps(cs, nf) ==
  IF cs = {} THEN {<<>>}
  ELSE LET c == CHOOSE x \in cs : TRUE
       IN  { (c :> d) @@ m : d \in ConnDirs(c, nf), m \in ConnMaps(cs \ {c}, nf) }

RECURSIVE SetToSeq(_)
SetToSeq(S) ==
  IF S = {} THEN <<>>
  ELSE LET x == CHOOSE y \in S : TRUE IN <<x>> \o SetToSeq(S \ {x})

(* the trees below the connections root: its listing, of at most nc entries, and
   every entry's own listing; one readdir per entry is issued whatever the
   order of the root's listing, so one order is taken *)
DbTrees(nc, nf) ==
  UNION { { [root |-> Dir(SetToSeq({ F(c) : c \in cs })), conns |-> m] : m \in ConnMaps(cs, nf) } :
          cs \in { X \in SUBSET ConnNames : Cardinality(X) <= nc } }

(* ------------------------------------------------------------------ *)
(* State                                                                 *)
(* ------------------------------------------------------------------ *)
VARIABLES
  fs,    \* the file system: input path, lstat outcome, document, directories
  ctx,   \* the Context object: fileName, mappings and the seven fields
  call,  \* the init() call: st, err of its promise, its argument, the constructor's mappings
  gc,    \* the promise getChanges() returned: st, val, mappings
  col,   \* per resource type, the collector: st, out, acc, subs, queue, inflight, part, done
  second \* a second init() call on the same context: its call, gc and col

vars == <<fs, ctx, call, gc, col, second>>

IdleCollector ==
  [st |-> "idle", out |-> Undefined, acc |-> EmptyAcc, subs |-> {}, queue |-> <<>>,
   inflight |-> {}, part |-> <<>>, done |-> {}]

NoError == [code |-> "none", message |-> [kind |-> "none"]]

(* no init() call yet on a context constructed with the mappings given: st is the
   state of the promise init returns, err its rejection, progress the argument
   of the call *)
NoCall(given) == [st |-> "none", err |-> NoError, progress |-> Undefined, given |-> given]

(* no second init() call yet *)
NoSecond ==
  [call |-> [st |-> "none", err |-> NoError, progress |-> Undefined],
   gc |-> [st |-> "none", mappings |-> Undefined, val |-> Undefined],
   col |-> [t \in Types |-> IdleCollector]]

NewContext(fileName, mappings) ==
  [fileName |-> fileName, mappings |-> mappings, fields |-> [t \in Types |-> Undefined]]

Root == Resolve(fs.fileName)

Min(a, b) == IF a < b THEN a ELSE b

(* ------------------------------------------------------------------ *)
(* Promise.map(Object.keys(acc), mapper, { concurrency: 2 })             *)
(* ------------------------------------------------------------------ *)
(* Promise.map without the concurrency option: the mapper runs on every entity *)
MapStart_Unbounded(t, c, a) ==
  LET n == Len(a.keys) IN
  IF n = 0
  THEN [c EXCEPT !.st = "resolved", !.out = SeqVal(<<>>), !.acc = a, !.subs = {}]
  ELSE [c EXCEPT !.st = "mapping", !.acc = a, !.subs = {},
                 !.queue = <<>>,
                 !.inflight = UNION { ReadsOf(t, i, a.files[a.keys[i]]) : i \in 1..n },
                 !.part = [i \in 1..n |-> NewEntity(t, a.keys[i])],
                 !.done = {}]

(* the map starts: the mapper runs on the first entities, the others are queued;
   part holds the object of every entity from the start *)
MapStart(t, c, a) ==
  LET n == Len(a.keys) IN
  IF n = 0
  THEN [c EXCEPT !.st = "resolved", !.out = SeqVal(<<>>), !.acc = a, !.subs = {}]
  ELSE [c EXCEPT !.st = "mapping", !.acc = a, !.subs = {},
                 !.queue = [i \in 1..(n - Min(n, Concurrency)) |-> i + Concurrency],
                 !.inflight = UNION { ReadsOf(t, i, a.files[a.keys[i]]) :
                                        i \in 1..Min(n, Concurrency) },
                 !.part = [i \in 1..n |-> NewEntity(t, a.keys[i])],
                 !.done = {}]

(* Catch without the ENOENT branch: every failure rejects *)
Catch_AlwaysRejects(t, c, e) ==
  [c EXCEPT !.st = "rejected", !.out = NewError(Label(t), <<>>, "", e.message)]

(* Catch that swallows every failure, not only ENOENT *)
Catch_AlwaysResolves(t, c, e) ==
  [c EXCEPT !.st = "resolved", !.out = Undefined]

(* the .catch that ends every collector *)
Catch(t, c, e) ==
  IF e.code = "ENOENT"
  THEN [c EXCEPT !.st = "resolved", !.out = Undefined]
  ELSE [c EXCEPT !.st = "rejected", !.out = NewError(Label(t), <<>>, "", e.message)]

(* EntityDone of a map that never starts a queued entity *)
EntityDone_NoRefill(t, c, i) ==
  LET d == c.done \cup {i} IN
  IF d = DOMAIN c.part
  THEN [c EXCEPT !.done = d, !.st = "resolved", !.out = SeqVal(c.part)]
  ELSE [c EXCEPT !.done = d]

(* the mapper of entity i resolved: the map starts the entity at the end of its
   queue, or resolves with the entities in key order once all are done *)
EntityDone(t, c, i) ==
  LET d == c.done \cup {i} IN
  IF c.queue # <<>>
  THEN LET j == Last(c.queue) IN
       [c EXCEPT !.done = d, !.queue = Front(c.queue),
                 !.inflight = @ \cup ReadsOf(t, j, c.acc.files[c.acc.keys[j]])]
  ELSE IF d = DOMAIN c.part
       THEN [c EXCEPT !.done = d, !.st = "resolved", !.out = SeqVal(c.part)]
       ELSE [c EXCEPT !.done = d]

(* what readFile does on the file at p *)
ReadOutcome(p) ==
  LET l == IF p.conn = NoConn
           THEN fs.dirs[CHOOSE t \in Types : DirOf(t) = p.dir].files
           ELSE fs.conns[p.conn].files
  IN  (CHOOSE e \in Range(l) : e.file = p.file).rd

SyscallOf(code) == IF code = "EISDIR" THEN "read" ELSE "open"

RECURSIVE ClassifyTree(_, _, _)
(* the accumulator of the connections collector when the readdirs of the entries
   cs complete in the order of cs *)
ClassifyTree(root, cs, a) ==
  IF cs = <<>> THEN a
  ELSE LET d == fs.conns[Head(cs)]
       IN  ClassifyTree(root, Tail(cs),
                        IF d.st = "ok" THEN ClassifyDbAll(root, Head(cs), d.files, a) ELSE a)

(* what the connections collector resolves with when the readdirs complete in
   the order of the root's listing and every read succeeds *)
DbFinalResult(root) ==
  LET l == fs.dirs["databases"].files
      a == ClassifyTree(root, [i \in DOMAIN l |-> l[i].file], EmptyAcc)
  IN  [i \in 1..Len(a.keys) |->
         ApplyReads("databases", NewEntity("databases", a.keys[i]),
                    ReadsOf("databases", i, a.files[a.keys[i]]))]

(* ------------------------------------------------------------------ *)
(* getChanges: Promise.props(promises).then(result => ({...}))           *)
(* ------------------------------------------------------------------ *)
ObjVal(f) == [t |-> "obj", v |-> f]

(* data.<k> of the resolved value of getChanges *)
Get(data, k) == IF k \in DOMAIN data.v THEN data.v[k] ELSE Undefined

(* the transform calls with the results of the two configurable collectors
   exchanged *)
Unify_Crossed(result, m) ==
  LET from(t) == IF t = "clients" THEN "resourceServers"
                 ELSE IF t = "resourceServers" THEN "clients" ELSE t
  IN  ObjVal([t \in Types |-> IF t = "databases" THEN unifyDatabases(result[t], m)
                              ELSE unifyScripts(result[from(t)], m)])

(* the then-callback of Promise.props: one transform call per collection *)
Unify(result, m) ==
  ObjVal([t \in Types |-> IF t = "databases" THEN unifyDatabases(result[t], m)
                          ELSE unifyScripts(result[t], m)])

(* Join that publishes as soon as one collector resolved: the others count as
   having found nothing *)
Join_Eager(c2) ==
  IF gc.st # "pending" THEN gc
  ELSE IF \E t \in Types : c2[t].st = "resolved"
       THEN [gc EXCEPT !.st = "resolved",
                       !.val = Unify([t \in Types |-> IF c2[t].st = "resolved" THEN c2[t].out
                                                      ELSE Undefined], gc.mappings)]
       ELSE gc

(* Join as a best-effort aggregation: a rejected collector counts as an empty one *)
Join_BestEffort(c2) ==
  IF gc.st # "pending" THEN gc
  ELSE IF \A t \in Types : c2[t].st \in {"resolved", "rejected"}
       THEN [gc EXCEPT !.st = "resolved",
                       !.val = Unify([t \in Types |-> IF c2[t].st = "resolved" THEN c2[t].out
                                                      ELSE Undefined], gc.mappings)]
       ELSE gc

(* the promise of getChanges after the collectors moved from col to c2: it
   rejects with the first rejection and resolves once all seven resolved *)
Join(c2) ==
  IF gc.st # "pending" THEN gc
  ELSE IF \E t \in Types : c2[t].st = "rejected" /\ col[t].st # "rejected"
       THEN [gc EXCEPT !.st = "rejected",
                       !.val = c2[CHOOSE t \in Types :
                                    c2[t].st = "rejected" /\ col[t].st # "rejected"].out]
       ELSE IF \A t \in Types : c2[t].st = "resolved"
            THEN [gc EXCEPT !.st = "resolved",
                            !.val = Unify([t \in Types |-> c2[t].out], gc.mappings)]
            ELSE gc

(* progress && progress.mappings *)
ProgressMappings(progress) == IF Falsy(progress) THEN progress ELSE progress.mappings

Progresses == {Undefined, [t |-> "obj", mappings |-> Mappings2]}

(* getChanges once fs.lstatSync(fullPath) ended as kind: a code it throws, or the
   kind of thing an lstat sees there *)
getChangesOn(kind, filePath, mappings) ==
  LET fullPath == Resolve(filePath) IN
  CASE kind \notin {"file", "dir", "symlink"} ->
         [st |-> "rejected", mappings |-> mappings,
          val |-> NewError("Can't process ", fullPath, " because: ",
                           FsError(kind, "lstat",
                                   JoinPath(fullPath, "", NoConn, NoFile)).message)]
    [] kind = "dir" -> [st |-> "pending", mappings |-> mappings, val |-> Undefined]
    [] kind = "file" /\ fs.doc.kind = "malformed" ->
         [st |-> "threw", mappings |-> mappings, val |-> Undefined]
    [] kind = "file" /\ fs.doc.kind = "null" ->
         [st |-> "resolved", mappings |-> mappings, val |-> JSNull]
    [] kind = "file" /\ fs.doc.kind = "object" ->
         [st |-> "resolved", mappings |-> mappings, val |-> ObjVal(fs.doc.v)]
    [] kind = "symlink" ->
         [st |-> "rejected", mappings |-> mappings,
          val |-> NewError("Not sure what to do with, ", fullPath,
                           ", it is not a file or directory...", [kind |-> "none"])]

(* getChanges that starts the collectors on a regular file as it does on a
   directory *)
getChanges_CollectsOnFile(filePath, mappings) ==
  getChangesOn(IF fs.lstat = "file" THEN "dir" ELSE fs.lstat, filePath, mappings)

(* getChanges that parses the file a link points to *)
getChanges_ParsesLinkedFile(filePath, mappings) ==
  getChangesOn(IF fs.lstat = "symlink" /\ fs.target = "file" THEN "file" ELSE fs.lstat,
               filePath, mappings)

(* getChanges with fs.statSync in place of fs.lstatSync: a link is followed *)
getChanges_FollowsLinks(filePath, mappings) ==
  getChangesOn(IF fs.lstat # "symlink" THEN fs.lstat
               ELSE IF fs.target = "dangling" THEN "ENOENT" ELSE fs.target,
               filePath, mappings)

(* the promise getChanges(filePath, mappings) returns; the collectors start when
   it is pending *)
getChanges(filePath, mappings) == getChangesOn(fs.lstat, filePath, mappings)

(* every collection defaulting to {} *)
Default_AlwaysMap(t) == EmptyMap

Default(t) == IF t = "databases" THEN EmptySeq ELSE EmptyMap

(* ------------------------------------------------------------------ *)
(* Actions                                                               *)
(* ------------------------------------------------------------------ *)
(* init that prefers the mappings of its argument to the constructor's *)
CallInit_ProgressFirst(progress) ==
  /\ call.st = "none"
  /\ LET m == OrElse(ProgressMappings(progress), ctx.mappings)
         g == getChanges(ctx.fileName, m)
     IN  /\ ctx' = [ctx EXCEPT !.mappings = m]
         /\ gc' = g
         /\ call' = [call EXCEPT !.st = IF g.st = "threw" THEN "threw" ELSE "pending",
                                  !.progress = progress]
         /\ col' = IF g.st = "pending"
                   THEN [t \in Types |-> [col[t] EXCEPT !.st = "listing"]]
                   ELSE col
  /\ UNCHANGED <<fs, second>>

(* init(progress) up to the return of its promise *)
CallInit(progress) ==
  /\ call.st = "none"
  /\ LET m == OrElse(ctx.mappings, ProgressMappings(progress))
         g == getChanges(ctx.fileName, m)
     IN  /\ ctx' = [ctx EXCEPT !.mappings = m]
         /\ gc' = g
         /\ call' = [call EXCEPT !.st = IF g.st = "threw" THEN "threw" ELSE "pending",
                                  !.progress = progress]
         /\ col' = IF g.st = "pending"
                   THEN [t \in Types |-> [col[t] EXCEPT !.st = "listing"]]
                   ELSE col
  /\ UNCHANGED <<fs, second>>

(* the then-callback of init giving the control back after every assignment: one
   step assigns one field, and the promise resolves with the last *)
InitThen_FieldByField ==
  /\ call.st = "pending"
  /\ gc.st \in {"resolved", "rejected"}
  /\ IF gc.st = "rejected"
     THEN /\ call' = [call EXCEPT !.st = "rejected", !.err = gc.val]
          /\ ctx' = ctx
     ELSE IF gc.val.t # "obj"
     THEN /\ call' = [call EXCEPT !.st = "rejected",
                      !.err = NewError("TypeError: Cannot read property of ", <<>>, "null",
                                       [kind |-> "none"])]
          /\ ctx' = ctx
     ELSE LET todo == { t \in Types : ctx.fields[t] # OrElse(Get(gc.val, t), Default(t)) }
              next == CHOOSE t \in todo : TRUE
          IN  IF todo = {} THEN call' = [call EXCEPT !.st = "resolved"] /\ ctx' = ctx
              ELSE /\ ctx' = [ctx EXCEPT !.fields[next] = OrElse(Get(gc.val, next), Default(next))]
                   /\ call' = [call EXCEPT !.st = IF todo = {next} THEN "resolved" ELSE "pending"]
  /\ UNCHANGED <<fs, gc, col, second>>

(* the then-callback of init: the seven assignments, or the rejection passed on *)
InitThen ==
  /\ call.st = "pending"
  /\ gc.st \in {"resolved", "rejected"}
  /\ IF gc.st = "rejected"
     THEN /\ call' = [call EXCEPT !.st = "rejected", !.err = gc.val]
          /\ ctx' = ctx
     ELSE IF gc.val.t # "obj"
     THEN /\ call' = [call EXCEPT !.st = "rejected",
                      !.err = NewError("TypeError: Cannot read property of ", <<>>, "null",
                                       [kind |-> "none"])]
          /\ ctx' = ctx
     ELSE /\ call' = [call EXCEPT !.st = "resolved"]
          /\ ctx' = [ctx EXCEPT !.fields =
                       [t \in Types |-> OrElse(Get(gc.val, t), Default(t))]]
  /\ UNCHANGED <<fs, gc, col, second>>

(* ListDone with the object configurables declared once for the two configurable
   collectors: each classifies into what the other has accumulated *)
ListDone_SharedAccumulator(t) ==
  /\ t \in SingleLevel
  /\ col[t].st = "listing"
  /\ \E a \in { ClassifyAll(t, Root, fs.dirs[t].files,
                             IF t = "clients" THEN col["resourceServers"].acc
                             ELSE IF t = "resourceServers" THEN col["clients"].acc
                             ELSE EmptyAcc) } :
     \E c \in { IF fs.dirs[t].st = "ok"
                 THEN MapStart(t, col[t], a)
                 ELSE Catch(t, col[t],
                            FsError(fs.dirs[t].st, "scandir",
                                    JoinPath(Root, DirOf(t), NoConn, NoFile))) } :
     \E c2 \in { [col EXCEPT ![t] = c] } :
       /\ col' = c2
       /\ gc' = Join(c2)
  /\ UNCHANGED <<fs, ctx, call, second>>

(* readdir of the directory of a single-level collector completes *)
ListDone(t) ==
  /\ t \in SingleLevel
  /\ col[t].st = "listing"
  /\ \E a \in { ClassifyAll(t, Root, fs.dirs[t].files, EmptyAcc) } :
     \E c \in { IF fs.dirs[t].st = "ok"
                 THEN MapStart(t, col[t], a)
                 ELSE Catch(t, col[t],
                            FsError(fs.dirs[t].st, "scandir",
                                    JoinPath(Root, DirOf(t), NoConn, NoFile))) } :
     \E c2 \in { [col EXCEPT ![t] = c] } :
       /\ col' = c2
       /\ gc' = Join(c2)
  /\ UNCHANGED <<fs, ctx, call, second>>

(* readdir of the connections root completes: one readdir per entry is issued *)
DbRootListDone ==
  /\ col["databases"].st = "listing"
  /\ LET t == "databases"
         d == fs.dirs[t]
         c == IF d.st # "ok"
              THEN Catch(t, col[t],
                         FsError(d.st, "scandir", JoinPath(Root, DirOf(t), NoConn, NoFile)))
              ELSE IF d.files = <<>> THEN MapStart(t, col[t], EmptyAcc)
              ELSE [col[t] EXCEPT !.st = "sublisting",
                                  !.subs = { d.files[i].file : i \in DOMAIN d.files }]
         c2 == [col EXCEPT ![t] = c]
     IN  /\ col' = c2
         /\ gc' = Join(c2)
  /\ UNCHANGED <<fs, ctx, call, second>>

(* AfterSubList without the per-entry catch: a failed readdir of an entry goes to
   the catch that ends the collector *)
AfterSubList_Propagates(c, cn) ==
  LET d == fs.conns[cn]
      rest == c.subs \ {cn}
  IN  IF d.st # "ok"
      THEN Catch("databases", c,
                 FsError(d.st, "scandir",
                         JoinPath(Root, DATABASE_CONNECTIONS_DIRECTORY, cn, NoFile)))
      ELSE IF rest = {}
           THEN MapStart("databases", c, ClassifyDbAll(Root, cn, d.files, c.acc))
           ELSE [c EXCEPT !.acc = ClassifyDbAll(Root, cn, d.files, c.acc), !.subs = rest]

(* the connections collector c after readdir of the entry cn completed: its files
   are classified, or the failure is logged and dropped; after the last readdir
   Promise.all resolves and the map starts *)
AfterSubList(c, cn) ==
  LET d == fs.conns[cn]
      a == IF d.st = "ok" THEN ClassifyDbAll(Root, cn, d.files, c.acc) ELSE c.acc
      rest == c.subs \ {cn}
  IN  IF rest = {} THEN MapStart("databases", c, a)
      ELSE [c EXCEPT !.acc = a, !.subs = rest]

(* readdir of the entry cn of the connections root completes *)
DbSubListDone(cn) ==
  /\ col["databases"].st = "sublisting"
  /\ cn \in col["databases"].subs
  /\ \E c2 \in { [col EXCEPT !["databases"] = AfterSubList(col["databases"], cn)] } :
       /\ col' = c2
       /\ gc' = Join(c2)
  /\ UNCHANGED <<fs, ctx, call, second>>

(* one readFile completes *)
ReadDone(t, r) ==
  /\ r \in col[t].inflight
  /\ LET rd == ReadOutcome(r.path)
         c1 == [col[t] EXCEPT !.inflight = @ \ {r}]
         c == IF col[t].st # "mapping" THEN c1
              ELSE IF rd # "ok" THEN Catch(t, c1, FsError(rd, SyscallOf(rd), r.path))
              ELSE LET cp == [c1 EXCEPT !.part[r.ent] = ApplyRead(t, @, r)] IN
                   IF \E q \in c1.inflight : q.ent = r.ent THEN cp
                   ELSE EntityDone(t, cp, r.ent)
         c2 == [col EXCEPT ![t] = c]
     IN  /\ col' = c2
         /\ gc' = Join(c2)
  /\ UNCHANGED <<fs, ctx, call, second>>

(* ------------------------------------------------------------------ *)
(* The same handlers for the second init() call on the context: they act *)
(* on second.call, second.gc and second.col, and on the one ctx          *)
(* ------------------------------------------------------------------ *)
(* the promise of the second getChanges after its collectors moved to c2 *)
Join2(c2) ==
  IF second.gc.st # "pending" THEN second.gc
  ELSE IF \E t \in Types : c2[t].st = "rejected" /\ second.col[t].st # "rejected"
       THEN [second.gc EXCEPT !.st = "rejected",
                              !.val = c2[CHOOSE t \in Types :
                                           c2[t].st = "rejected"
                                           /\ second.col[t].st # "rejected"].out]
       ELSE IF \A t \in Types : c2[t].st = "resolved"
            THEN [second.gc EXCEPT !.st = "resolved",
                                   !.val = Unify([t \in Types |-> c2[t].out],
                                                 second.gc.mappings)]
            ELSE second.gc

(* init(progress) called again, the first call made: me.mappings is what the
   first call left there *)
CallInit2(progress) ==
  /\ call.st # "none"
  /\ second.call.st = "none"
  /\ LET m == OrElse(ctx.mappings, ProgressMappings(progress))
         g == getChanges(ctx.fileName, m)
     IN  /\ ctx' = [ctx EXCEPT !.mappings = m]
         /\ second' =
              [call |-> [second.call EXCEPT !.st = IF g.st = "threw" THEN "threw" ELSE "pending",
                                            !.progress = progress],
               gc |-> g,
               col |-> IF g.st = "pending"
                       THEN [t \in Types |-> [second.col[t] EXCEPT !.st = "listing"]]
                       ELSE second.col]
  /\ UNCHANGED <<fs, call, gc, col>>

(* the then-callback of the second init *)
InitThen2 ==
  /\ second.call.st = "pending"
  /\ second.gc.st \in {"resolved", "rejected"}
  /\ IF second.gc.st = "rejected"
     THEN /\ second' = [second EXCEPT !.call.st = "rejected", !.call.err = second.gc.val]
          /\ ctx' = ctx
     ELSE IF second.gc.val.t # "obj"
     THEN /\ second' = [second EXCEPT !.call.st = "rejected",
                          !.call.err = NewError("TypeError: Cannot read property of ", <<>>,
                                                "null", [kind |-> "none"])]
          /\ ctx' = ctx
     ELSE /\ second' = [second EXCEPT !.call.st = "resolved"]
          /\ ctx' = [ctx EXCEPT !.fields =
                       [t \in Types |-> OrElse(Get(second.gc.val, t), Default(t))]]
  /\ UNCHANGED <<fs, call, gc, col>>

ListDone2(t) ==
  /\ t \in SingleLevel
  /\ second.col[t].st = "listing"
  /\ \E a \in { ClassifyAll(t, Root, fs.dirs[t].files, EmptyAcc) } :
     \E c \in { IF fs.dirs[t].st = "ok"
                 THEN MapStart(t, second.col[t], a)
                 ELSE Catch(t, second.col[t],
                            FsError(fs.dirs[t].st, "scandir",
                                    JoinPath(Root, DirOf(t), NoConn, NoFile))) } :
     \E c2 \in { [second.col EXCEPT ![t] = c] } :
       second' = [second EXCEPT !.col = c2, !.gc = Join2(c2)]
  /\ UNCHANGED <<fs, ctx, call, gc, col>>

DbRootListDone2 ==
  /\ second.col["databases"].st = "listing"
  /\ LET t == "databases"
         d == fs.dirs[t]
         c == IF d.st # "ok"
              THEN Catch(t, second.col[t],
                         FsError(d.st, "scandir", JoinPath(Root, DirOf(t), NoConn, NoFile)))
              ELSE IF d.files = <<>> THEN MapStart(t, second.col[t], EmptyAcc)
              ELSE [second.col[t] EXCEPT !.st = "sublisting",
                                         !.subs = { d.files[i].file : i \in DOMAIN d.files }]
         c2 == [second.col EXCEPT ![t] = c]
     IN  second' = [second EXCEPT !.col = c2, !.gc = Join2(c2)]
  /\ UNCHANGED <<fs, ctx, call, gc, col>>

DbSubListDone2(cn) ==
  /\ second.col["databases"].st = "sublisting"
  /\ cn \in second.col["databases"].subs
  /\ \E c2 \in { [second.col EXCEPT
                     !["databases"] = AfterSubList(second.col["databases"], cn)] } :
       second' = [second EXCEPT !.col = c2, !.gc = Join2(c2)]
  /\ UNCHANGED <<fs, ctx, call, gc, col>>

ReadDone2(t, r) ==
  /\ r \in second.col[t].inflight
  /\ LET rd == ReadOutcome(r.path)
         c1 == [second.col[t] EXCEPT !.inflight = @ \ {r}]
         c == IF second.col[t].st # "mapping" THEN c1
              ELSE IF rd # "ok" THEN Catch(t, c1, FsError(rd, SyscallOf(rd), r.path))
              ELSE LET cp == [c1 EXCEPT !.part[r.ent] = ApplyRead(t, @, r)] IN
                   IF \E q \in c1.inflight : q.ent = r.ent THEN cp
                   ELSE EntityDone(t, cp, r.ent)
         c2 == [second.col EXCEPT ![t] = c]
     IN  second' = [second EXCEPT !.col = c2, !.gc = Join2(c2)]
  /\ UNCHANGED <<fs, ctx, call, gc, col>>

(* ------------------------------------------------------------------ *)
(* Initial states                                                        *)
(* ------------------------------------------------------------------ *)
(* a directory of type t holding one recognized file *)
SmallDir(t) ==
  CASE t = "rules" -> Dir(<<F(<<"a", "js">>)>>)
    [] t = "pages" -> Dir(<<F(<<"login", "html">>)>>)
    [] t = "databases" -> Dir(<<F(<<"db1">>)>>)
    [] t \in {"clients", "resourceServers"} -> Dir(<<F(<<"a", "json">>)>>)
    [] t = "emailTemplates" -> Dir(<<F(<<"verify_email", "html">>)>>)
    [] t = "emailProviders" -> Dir(<<F(<<"default", "json">>)>>)

SmallConns == (<<"db1">> :> Dir(<<F(<<"login", "js">>)>>))

(* the input directories with at most n subdirectories that are not absent: each
   is a small directory or fails to list (a plain file: ENOTDIR) *)
SmallTrees(n) ==
  { [t \in Types |-> IF t \in P THEN (IF t \in Q THEN NoDir(code) ELSE SmallDir(t))
                     ELSE NoDir("ENOENT")] :
      P \in { X \in SUBSET Types : Cardinality(X) <= n }, Q \in SUBSET Types,
      code \in {"ENOTDIR"} }

(* a collection of type t as a document holds it *)
DocSample(t) ==
  IF t = "databases" THEN SeqVal(<<[name |-> "db1"]>>)
  ELSE MapVal(("x" :> [name |-> "x"]))

DocVals(t) == {DocSample(t), Default(t), JSNull}

RECURSIVE DocMaps(_)
DocMaps(ks) ==
  IF ks = {} THEN {<<>>}
  ELSE LET k == CHOOSE x \in ks : TRUE
       IN  { (k :> v) @@ m : v \in DocVals(k), m \in DocMaps(ks \ {k}) }

(* the documents of file mode: an object with at most n of the seven keys, the
   document null, and a text JSON.parse throws on *)
Docs(n) ==
  { [kind |-> "object", v |-> m] :
      m \in UNION { DocMaps(K) : K \in { X \in SUBSET Types : Cardinality(X) <= n } } }
  \cup {[kind |-> "null", v |-> <<>>], [kind |-> "malformed", v |-> <<>>]}

(* the doc's keys all hold collections *)
WellFormed(doc) ==
  doc.kind = "object" /\ \A k \in DOMAIN doc.v : doc.v[k].t \in {"map", "seq"}

RelName == [abs |-> FALSE, comps |-> <<"local", "data">>]

FsInputs ==
  { MkFs(f, code, "none", NoDoc, AllAbsent, <<>>) : f \in FileNames, code \in {"ENOENT", "EACCES"} }
  \cup { MkFs(f, "symlink", tg,
                IF tg = "file" THEN [kind |-> "object", v |-> <<>>] ELSE NoDoc,
                AllAbsent, <<>>) :
           f \in FileNames, tg \in {"dangling", "file", "dir"} }
  \cup { MkFs(f, "file", "none", d, AllAbsent, <<>>) : f \in FileNames, d \in Docs(MaxDocKeys) }
  \cup { MkFs(RelName, "dir", "none", NoDoc, d, SmallConns) : d \in SmallTrees(MaxPresent) }

Init ==
  /\ fs \in FsInputs
  /\ ctx \in { NewContext(fs.fileName, m) : m \in {Undefined, Mappings1} }
  /\ call = NoCall(ctx.mappings)
  /\ gc = [st |-> "none", mappings |-> Undefined, val |-> Undefined]
  /\ second = NoSecond
  /\ col = [t \in Types |-> IdleCollector]

Next ==
  \/ \E progress \in Progresses : CallInit(progress)
  \/ InitThen
  \/ \E t \in SingleLevel : ListDone(t)
  \/ DbRootListDone
  \/ \E cn \in ConnNames : DbSubListDone(cn)
  \/ \E t \in Types : \E r \in col[t].inflight : ReadDone(t, r)

Spec == Init /\ [][Next]_vars

(* ------------------------------------------------------------------ *)
(* One collector run on its own directory: getRules(dirPath), ...,       *)
(* getDatabases(dirPath) called directly                                 *)
(* ------------------------------------------------------------------ *)
ListingCodes == {"ENOENT", "ENOTDIR", "EACCES"}

(* the file systems in which the directory of type t0 is the only one present *)
CollectorInputs(t0) ==
  IF t0 = "databases"
  THEN { MkFs(RelName, "dir", "none", NoDoc, [AllAbsent EXCEPT ![t0] = tr.root], tr.conns) :
           tr \in DbTrees(MaxConns, MaxConnFiles) }
       \cup { MkFs(RelName, "dir", "none", NoDoc, [AllAbsent EXCEPT ![t0] = NoDir(code)], <<>>) :
                code \in ListingCodes }
  ELSE { MkFs(RelName, "dir", "none", NoDoc, [AllAbsent EXCEPT ![t0] = d], <<>>) :
           d \in { Dir(l) : l \in Listings(Pool(t0), MaxFiles) }
                 \cup { NoDir(code) : code \in ListingCodes } }

InitCollector ==
  /\ \E t0 \in Types :
       /\ fs \in CollectorInputs(t0)
       /\ col = [t \in Types |-> IF t = t0 THEN [IdleCollector EXCEPT !.st = "listing"]
                                 ELSE IdleCollector]
  /\ ctx = NewContext(fs.fileName, Undefined)
  /\ call = NoCall(ctx.mappings)
  /\ gc = [st |-> "none", mappings |-> Undefined, val |-> Undefined]
  /\ second = NoSecond

NextCollector ==
  \/ \E t \in SingleLevel : ListDone(t)
  \/ DbRootListDone
  \/ \E cn \in ConnNames : DbSubListDone(cn)
  \/ \E t \in Types : \E r \in col[t].inflight : ReadDone(t, r)

SpecCollector == InitCollector /\ [][NextCollector]_vars

(* ------------------------------------------------------------------ *)
(* init() on directories with more entities than the map runs at once,   *)
(* every listing and read completing eventually                          *)
(* ------------------------------------------------------------------ *)
(* a rules directory of MaxFiles - 1 rules; rd is what reading c.js does *)
LiveRules(rd) ==
  LET l == <<F(<<"a", "js">>), F(<<"b", "js">>), [file |-> <<"c", "js">>, rd |-> rd],
             F(<<"d", "js">>), F(<<"e", "js">>)>>
  IN  Dir(SubSeq(l, 1, Min(MaxFiles - 1, Len(l))))

(* a clients directory of MaxFiles - 1 clients *)
LiveClients ==
  LET l == <<F(<<"a", "json">>), F(<<"b", "json">>), F(<<"c", "meta", "json">>),
             F(<<"d", "json">>), F(<<"e", "json">>)>>
  IN  Dir(SubSeq(l, 1, Min(MaxFiles - 1, Len(l))))

LiveConns ==
  (<<"db1">> :> Dir(<<F(<<"login", "js">>), F(<<"create", "js">>)>>))
  @@ (<<"db2">> :> Dir(<<F(<<"get_user", "js">>)>>))

LiveInputs ==
  { MkFs(RelName, "dir", "none", NoDoc, [AllAbsent EXCEPT !["rules"] = LiveRules(rd)], <<>>) :
      rd \in {"ok", "ENOENT", "EISDIR"} }
  \cup { MkFs(RelName, "dir", "none", NoDoc, [AllAbsent EXCEPT !["clients"] = LiveClients], <<>>),
         MkFs(RelName, "dir", "none", NoDoc,
              [AllAbsent EXCEPT !["databases"] = Dir(<<F(<<"db1">>), F(<<"db2">>)>>)],
              LiveConns) }
  \cup { f \in FsInputs : f.lstat # "dir" }

InitLive ==
  /\ fs \in LiveInputs
  /\ ctx = NewContext(fs.fileName, Mappings1)
  /\ call = NoCall(ctx.mappings)
  /\ gc = [st |-> "none", mappings |-> Undefined, val |-> Undefined]
  /\ second = NoSecond
  /\ col = [t \in Types |-> IdleCollector]

(* the callbacks the event loop runs once their listing, read or promise is done *)
Completions ==
  \/ InitThen
  \/ \E t \in SingleLevel : ListDone(t)
  \/ DbRootListDone
  \/ \E cn \in ConnNames : DbSubListDone(cn)
  \/ \E t \in Types : \E r \in col[t].inflight : ReadDone(t, r)

SpecLive == InitLive /\ [][Next]_vars /\ WF_vars(Completions)

(* ------------------------------------------------------------------ *)
(* The two runs of getConfigurableConfigs that getChanges starts, side   *)
(* by side: clients and resource servers                                 *)
(* ------------------------------------------------------------------ *)
Configurables == {"clients", "resourceServers"}

(* the directories of the pair: at most MaxFiles - 2 files each *)
PairDirs ==
  { Dir(l) : l \in Listings({F(<<"a", "json">>), F(<<"a", "meta", "json">>),
                             F(<<"b", "json">>), F(<<"README", "md">>)}, MaxFiles - 2) }

InitPair ==
  /\ \E dc \in PairDirs : \E dr \in PairDirs :
       fs = MkFs(RelName, "dir", "none", NoDoc,
                 [AllAbsent EXCEPT !["clients"] = dc, !["resourceServers"] = dr], <<>>)
  /\ col = [t \in Types |-> IF t \in Configurables THEN [IdleCollector EXCEPT !.st = "listing"]
                            ELSE IdleCollector]
  /\ ctx = NewContext(fs.fileName, Undefined)
  /\ call = NoCall(ctx.mappings)
  /\ gc = [st |-> "none", mappings |-> Undefined, val |-> Undefined]
  /\ second = NoSecond

NextPair ==
  \/ \E t \in Configurables : ListDone(t)
  \/ \E t \in Configurables : \E r \in col[t].inflight : ReadDone(t, r)

SpecPair == InitPair /\ [][NextPair]_vars

(* ------------------------------------------------------------------ *)
(* init() called twice on one context: the second call while the first  *)
(* is in flight or after it                                              *)
(* ------------------------------------------------------------------ *)
(* the argument of the second call: a state whose mappings are not those of the
   argument of the first *)
ProgressesAgain == { [t |-> "obj", mappings |-> Mappings1] }

TwoInputs ==
  { MkFs(RelName, "dir", "none", NoDoc,
         [AllAbsent EXCEPT !["databases"] = SmallDir("databases")], SmallConns) }
  \cup { f \in FsInputs : f.lstat # "dir" /\ f.fileName = RelName }

InitTwo ==
  /\ fs \in TwoInputs
  /\ ctx = NewContext(fs.fileName, Undefined)
  /\ call = NoCall(ctx.mappings)
  /\ gc = [st |-> "none", mappings |-> Undefined, val |-> Undefined]
  /\ second = NoSecond
  /\ col = [t \in Types |-> IdleCollector]

NextTwo ==
  \/ \E progress \in Progresses : CallInit(progress)
  \/ \E progress \in ProgressesAgain : CallInit2(progress)
  \/ InitThen
  \/ InitThen2
  \/ \E t \in SingleLevel : ListDone(t)
  \/ \E t \in SingleLevel : ListDone2(t)
  \/ DbRootListDone
  \/ DbRootListDone2
  \/ \E cn \in ConnNames : DbSubListDone(cn)
  \/ \E cn \in ConnNames : DbSubListDone2(cn)
  \/ \E t \in Types : \E r \in col[t].inflight : ReadDone(t, r)
  \/ \E t \in Types : \E r \in second.col[t].inflight : ReadDone2(t, r)

SpecTwo == InitTwo /\ [][NextTwo]_vars

(* ------------------------------------------------------------------ *)
(* Properties                                                            *)
(* ------------------------------------------------------------------ *)
Assigned == { t \in Types : ctx.fields[t] # Undefined }

ListingFails(t) == fs.dirs[t].st \notin {"ok", "ENOENT"}

(* the error readdir raises on the directory of type t *)
ListingError(t) ==
  [kind |-> "fs", code |-> fs.dirs[t].st, syscall |-> "scandir",
   path |-> [root |-> Root, dir |-> DirOf(t), conn |-> <<>>, file |-> <<>>]]

(* C1: in directory mode the collector of an absent subdirectory never rejects,
   it resolves to no value; after a successful init its context field is the
   empty default of the type ([] for databases, {} for the others); and a
   rejection of init is always the rejection of a collector whose subdirectory
   is not absent. *)
C1_AbsentDirectoryIsEmptyDefault ==
  fs.lstat = "dir" =>
    /\ \A t \in Types :
         fs.dirs[t].st = "ENOENT" =>
           /\ col[t].st \in {"idle", "listing", "resolved"}
           /\ col[t].st = "resolved" => col[t].out = [t |-> "undefined"]
           /\ call.st = "resolved" =>
                ctx.fields[t] = IF t = "databases" THEN [t |-> "seq", v |-> <<>>]
                                ELSE [t |-> "map", v |-> <<>>]
    /\ call.st \notin {"threw"}
    /\ call.st = "rejected" =>
         \E t \in Types : /\ fs.dirs[t].st # "ENOENT"
                          /\ col[t].st = "rejected"
                          /\ call.err = col[t].out

C1_Witness ==
  /\ fs.lstat = "dir"
  /\ call.st = "resolved"
  /\ \E t \in Types : fs.dirs[t].st = "ENOENT" /\ col[t].st = "resolved"
  /\ \E t \in Types : fs.dirs[t].st = "ok" /\ ctx.fields[t] # Default(t)

(* C2: in directory mode, when the listing of a type's subdirectory fails with
   an error other than not-found, its collector never resolves: it rejects with
   an Error whose message is the type's label followed by the message of the
   listing error; init never resolves, and the error init rejects with is the
   error of such a collector (of this one when it is the only one). *)
C2_ListingFailureRejects ==
  fs.lstat = "dir" =>
    \A t \in Types :
      ListingFails(t) =>
        /\ col[t].st \in {"idle", "listing", "rejected"}
        /\ col[t].st = "rejected" =>
             /\ col[t].out.code = "none"
             /\ col[t].out.message.kind = "text"
             /\ col[t].out.message.prefix = Label(t)
             /\ col[t].out.message.cause = ListingError(t)
             /\ gc.st = "rejected"
        /\ call.st \in {"none", "pending", "rejected"}
        /\ call.st = "rejected" =>
             /\ \E u \in Types : ListingFails(u) /\ col[u].st = "rejected" /\ call.err = col[u].out
             /\ (\A u \in Types \ {t} : ~ListingFails(u)) => call.err = col[t].out

C2_Witness ==
  /\ fs.lstat = "dir"
  /\ call.st = "rejected"
  /\ \E t \in Types : ListingFails(t) /\ call.err = col[t].out
  /\ \E t \in Types : fs.dirs[t].st = "ok" /\ col[t].st = "resolved" /\ col[t].out # Undefined

(* C3: once a collector has rejected, init never resolves and none of the seven
   context fields is assigned, whatever the sibling collectors have produced. *)
C3_AllOrNothing ==
  (\E t \in Types : col[t].st = "rejected") =>
    /\ call.st \in {"pending", "rejected"}
    /\ Assigned = {}
    /\ gc.st = "rejected"

C3_Witness ==
  /\ call.st = "rejected"
  /\ \E t \in Types : col[t].st = "rejected"
  /\ \E t \in Types : col[t].st = "resolved" /\ col[t].out.t = "seq" /\ col[t].out.v # <<>>
  /\ Assigned = {}

(* the input path resolved against the working directory *)
FullPath == IF fs.fileName.abs THEN fs.fileName.comps ELSE <<"cwd">> \o fs.fileName.comps

NoCollectorStarted == \A t \in Types : col[t] = IdleCollector

(* C6: when the input path is a regular file holding a well-formed document
   (an object whose present keys hold collections), init never rejects nor
   throws, no collector is started, and after init each of the seven context
   fields is the document's value under that key, or [] for databases and {}
   for the others when the key is absent; the mappings change nothing. *)
C6_FileModeFields ==
  (fs.lstat = "file" /\ WellFormed(fs.doc)) =>
    /\ call.st \in {"none", "pending", "resolved"}
    /\ NoCollectorStarted
    /\ call.st = "resolved" =>
         \A t \in Types :
           ctx.fields[t] = IF t \in DOMAIN fs.doc.v THEN fs.doc.v[t]
                           ELSE IF t = "databases" THEN [t |-> "seq", v |-> <<>>]
                           ELSE [t |-> "map", v |-> <<>>]

C6_Witness ==
  /\ fs.lstat = "file"
  /\ WellFormed(fs.doc)
  /\ call.st = "resolved"
  /\ ctx.mappings # Undefined
  /\ "rules" \in DOMAIN fs.doc.v /\ ctx.fields["rules"] = DocSample("rules")
  /\ "databases" \notin DOMAIN fs.doc.v /\ ctx.fields["databases"] = EmptySeq

(* C7: when the input path is a symbolic link that resolves to nothing, init
   rejects with the Error "Not sure what to do with, <resolved input path>, it
   is not a file or directory..." and starts no collector. *)
C7_DanglingSymlinkRejected ==
  (fs.lstat = "symlink" /\ fs.target = "dangling" /\ call.st # "none") =>
    /\ gc.st = "rejected"
    /\ gc.val = [code |-> "none",
                 message |-> [kind |-> "text", prefix |-> "Not sure what to do with, ",
                              path |-> FullPath,
                              suffix |-> ", it is not a file or directory...",
                              cause |-> [kind |-> "none"]]]
    /\ call.st \in {"pending", "rejected"}
    /\ call.st = "rejected" => call.err = gc.val
    /\ NoCollectorStarted
    /\ Assigned = {}

C7_Witness ==
  /\ fs.lstat = "symlink" /\ fs.target = "dangling"
  /\ ~fs.fileName.abs
  /\ call.st = "rejected"
  /\ call.err.message.path = <<"cwd", "local", "data">>

(* C8: when the input path does not exist, init rejects with the Error "Can't
   process <resolved input path> because: <message of the lstat error>", no
   collector is started and no context field is assigned. *)
C8_MissingInputPath ==
  (fs.lstat = "ENOENT" /\ call.st # "none") =>
    /\ gc.st = "rejected"
    /\ gc.val = [code |-> "none",
                 message |-> [kind |-> "text", prefix |-> "Can't process ",
                              path |-> FullPath, suffix |-> " because: ",
                              cause |-> [kind |-> "fs", code |-> "ENOENT", syscall |-> "lstat",
                                         path |-> [root |-> FullPath, dir |-> "",
                                                   conn |-> <<>>, file |-> <<>>]]]]
    /\ call.st \in {"pending", "rejected"}
    /\ call.st = "rejected" => call.err = gc.val
    /\ NoCollectorStarted
    /\ Assigned = {}

C8_Witness ==
  /\ fs.lstat = "ENOENT"
  /\ ~fs.fileName.abs
  /\ call.st = "rejected"
  /\ call.err.message.cause.code = "ENOENT"
  /\ NoCollectorStarted

(* the content reads of collector t that are in flight, and the entities they
   belong to *)
ReadsInFlight(t) == col[t].inflight

EntitiesInFlight(t) == { r.ent : r \in col[t].inflight }

(* C4 as stated: within one collector the number of content reads in flight
   never exceeds 2, whatever the number of files of an entity. *)
C4_ReadsInFlightBounded ==
  \A t \in Types : Cardinality(ReadsInFlight(t)) <= 2

(* C4: within one collector the number of entities whose content is being read
   never exceeds 2, whatever the number of entities discovered; the reads in
   flight are the reads of those entities, all files of an entity being read at
   once: at most 2 files for each entity of a single-level collector, at most
   the recognized files of its directory for a connection. *)
C4_EntitiesInFlightBounded ==
  \A t \in Types :
    /\ Cardinality(EntitiesInFlight(t)) <= 2
    /\ t \in SingleLevel =>
         \A i \in EntitiesInFlight(t) :
           Cardinality({ r \in ReadsInFlight(t) : r.ent = i }) <= 2
    /\ t = "databases" =>
         \A i \in EntitiesInFlight(t) :
           Cardinality({ r \in ReadsInFlight(t) : r.ent = i })
             <= Len(fs.conns[col[t].acc.keys[i]].files)

C4_Witness ==
  \E t \in Types :
    /\ col[t].st = "mapping"
    /\ col[t].queue # <<>>
    /\ Cardinality(EntitiesInFlight(t)) = 2
    /\ Cardinality(ReadsInFlight(t)) > 2

(* the position of the script name n in the whitelist *)
WhitelistIndex(n) == CHOOSE k \in DOMAIN DATABASE_SCRIPTS : DATABASE_SCRIPTS[k] = n[1]

(* the result of the connections collector, when it resolved with connections *)
DbResolved == col["databases"].st = "resolved" /\ col["databases"].out.t = "seq"

DbResult == col["databases"].out.v

(* the file name f is one the connections collector recognizes as a script *)
IsScriptFile(f) ==
  Len(f) = 2 /\ f[2] \in {"js", "JS"} /\ f[1] \in Range(DATABASE_SCRIPTS)

IsConfigurationFile(f) == f = <<"configuration", "json">>

(* C5 as stated: the scripts of every connection of the result are in whitelist
   order. *)
C5_ScriptsInWhitelistOrder ==
  DbResolved =>
    \A e \in Range(DbResult) :
      \A i, j \in DOMAIN e.scripts :
        i < j => WhitelistIndex(e.scripts[i].name) <= WhitelistIndex(e.scripts[j].name)

(* C5: for every connection of the result of the connections collector, the
   script list holds one entry for each recognized script file of the
   connection directory, with the whitelist name and the content of that file,
   whatever the order of the listing and the order in which the reads
   complete; the order of the list is the order in which the reads completed,
   not the whitelist order. *)
C5_ScriptsOnePerFile ==
  DbResolved =>
    \A e \in Range(DbResult) :
      LET files == { x.file : x \in { y \in Range(fs.conns[e.name].files) : IsScriptFile(y.file) } }
      IN  /\ Len(e.scripts) = Cardinality(files)
          /\ Range(e.scripts) =
               { [name |-> <<f[1]>>,
                  scriptFile |-> [text |-> [root |-> Root, dir |-> "database-connections",
                                            conn |-> e.name, file |-> f]]] : f \in files }

C5_Witness ==
  /\ DbResolved
  /\ \E e \in Range(DbResult) :
       /\ Len(e.scripts) = 2
       /\ e.scripts[1].name = <<"login">>
       /\ e.scripts[2].name = <<"create">>
       /\ fs.conns[e.name].files[1].file = <<"create", "js">>

(* the entries of the connections root whose readdir fails *)
FailingEntries ==
  { cn \in { x.file : x \in Range(fs.dirs["databases"].files) } : fs.conns[cn].st # "ok" }

(* the entries of the connections root that list and hold a recognized file *)
ListedConnections ==
  { cn \in { x.file : x \in Range(fs.dirs["databases"].files) } :
      /\ fs.conns[cn].st = "ok"
      /\ \E x \in Range(fs.conns[cn].files) : IsScriptFile(x.file) \/ IsConfigurationFile(x.file) }

(* C9: a failure to list an entry of the connections root never rejects the
   connections collector: a rejection of the collector is never caused by the
   readdir of an entry, the collector does not reject when every content read
   succeeds, and when it resolves with connections these are exactly the
   entries that list and hold at least one recognized file, so the failing
   entry is omitted and its siblings appear. *)
C9_BadConnectionDirectorySkipped ==
  LET c == col["databases"] IN
  /\ c.st = "rejected" =>
       ~(c.out.message.cause.syscall = "scandir" /\ c.out.message.cause.path.conn # <<>>)
  /\ (/\ fs.dirs["databases"].st = "ok"
      /\ \A cn \in DOMAIN fs.conns : \A x \in Range(fs.conns[cn].files) : x.rd = "ok")
       => /\ c.st # "rejected"
          /\ c.st = "resolved" => c.out.t = "seq"
  /\ DbResolved => { e.name : e \in Range(DbResult) } = ListedConnections

C9_Witness ==
  /\ DbResolved
  /\ FailingEntries # {}
  /\ \E e \in Range(DbResult) : e.name = <<"db1">>
  /\ \A e \in Range(DbResult) : e.name \notin FailingEntries

(* C10: in every result of the connections collector each script of each
   connection has a name of the whitelist, and no content of a connection comes
   from a .js or .json file with a name that is neither <whitelist name>.js nor
   configuration.json. *)
C10_OnlyWhitelistedScripts ==
  DbResolved =>
    \A e \in Range(DbResult) :
      /\ \A x \in Range(e.scripts) :
           /\ Len(x.name) = 1 /\ x.name[1] \in Range(DATABASE_SCRIPTS)
           /\ IsScriptFile(x.scriptFile.text.file)
      /\ "configurationFile" \in DOMAIN e => IsConfigurationFile(e.configurationFile.text.file)

C10_Witness ==
  /\ DbResolved
  /\ \E e \in Range(DbResult) :
       /\ e.scripts # <<>>
       /\ \E x \in Range(fs.conns[e.name].files) : x.file[1] = "junk"

(* the result of collector t, when it resolved with entities *)
Resolved(t) == col[t].st = "resolved" /\ col[t].out.t = "seq"

Result(t) == col[t].out.v

(* the names of the files the directory of type t lists *)
Listed(t) == { x.file : x \in Range(fs.dirs[t].files) }

(* the text of the file f of the directory of type t *)
TextOf(t, f) == [text |-> [root |-> Root, dir |-> DirOf(t), conn |-> <<>>, file |-> f]]

(* the entities of the result of t named n *)
Named(t, n) == { i \in DOMAIN Result(t) : Result(t)[i].name = n }

(* the files <name>.meta.json, <name> not empty, of the directory of type t *)
MetaFiles(t) ==
  { f \in Listed(t) : Len(f) >= 3 /\ f[Len(f)] = "json" /\ f[Len(f) - 1] = "meta"
                      /\ SubSeq(f, 1, Len(f) - 2) # <<"">> }

(* C11: in the results of the clients and resource-servers collectors, a file
   <name>.meta.json (<name> not empty) is the metadata of the one entry named
   <name>; that entry's config is the content of <name>.json when this file
   exists and is missing otherwise; no entry is named <name>.meta. *)
C11_MetaSidecarAttached ==
  \A t \in {"clients", "resourceServers"} :
    Resolved(t) =>
      \A f \in MetaFiles(t) :
        LET n == SubSeq(f, 1, Len(f) - 2) IN
        /\ Cardinality(Named(t, n)) = 1
        /\ Named(t, n \o <<"meta">>) = {}
        /\ \A i \in Named(t, n) :
             LET e == Result(t)[i] IN
             /\ "metadataFile" \in DOMAIN e /\ e.metadataFile = TextOf(t, f)
             /\ IF n \o <<"json">> \in Listed(t)
                THEN "configFile" \in DOMAIN e /\ e.configFile = TextOf(t, n \o <<"json">>)
                ELSE "configFile" \notin DOMAIN e

C11_Witness ==
  \E t \in {"clients", "resourceServers"} :
    /\ Resolved(t)
    /\ {<<"a", "json">>, <<"a", "meta", "json">>, <<"c", "meta", "json">>} \subseteq Listed(t)
    /\ Len(Result(t)) = 2

(* the file name f matches the pattern the collector of type t recognizes *)
Recognized(t, f) ==
  CASE t = "rules" -> Len(f) >= 2 /\ f # <<"", f[Len(f)]>> /\ f[Len(f)] \in {"js", "json"}
    [] t \in {"clients", "resourceServers"} ->
         Len(f) >= 2 /\ f # <<"", f[Len(f)]>> /\ f[Len(f)] = "json"
    [] t = "pages" -> f \in PAGE_NAMES
    [] t = "emailTemplates" -> f \in EMAIL_TEMPLATE_FILENAMES
    [] t = "emailProviders" -> f = EMAIL_PROVIDER_FILENAME
    [] t = "databases" -> IsScriptFile(f) \/ IsConfigurationFile(f)

(* the listing l without the files the type does not recognize *)
WithoutUnrecognized(t, l) == SelectSeq(l, LAMBDA x : Recognized(t, x.file))

(* a connection of a result whatever the order of its scripts *)
Unordered(e) ==
  [name |-> e.name, count |-> Len(e.scripts), scripts |-> Range(e.scripts),
   configuration |-> IF "configurationFile" \in DOMAIN e THEN <<e.configurationFile>> ELSE <<>>]

(* the connection the directory cn gives without its unrecognized files *)
ConnectionWithout(cn) ==
  LET l == WithoutUnrecognized("databases", fs.conns[cn].files)
      a == ClassifyDbAll(Root, cn, l, EmptyAcc)
  IN  Unordered(ApplyReads("databases", NewEntity("databases", cn),
                           ReadsOf("databases", 1, a.files[cn])))

(* C12: in every collector a file that does not match the type's pattern never
   causes a rejection (a rejection after a successful listing is caused by the
   read of a recognized file, and there is none when all recognized files are
   readable) and never creates or modifies an entry: the result is the result
   for the directory without the unrecognized files. *)
C12_UnrecognizedFilesSkipped ==
  /\ \A t \in SingleLevel :
       /\ (col[t].st = "rejected" /\ fs.dirs[t].st = "ok") =>
            Recognized(t, col[t].out.message.cause.path.file)
       /\ (fs.dirs[t].st = "ok"
           /\ \A x \in Range(fs.dirs[t].files) : Recognized(t, x.file) => x.rd = "ok") =>
            /\ col[t].st # "rejected"
            /\ col[t].st = "resolved" => col[t].out.t = "seq"
       /\ Resolved(t) =>
            Result(t) = FinalResult(t, Root, WithoutUnrecognized(t, fs.dirs[t].files))
  /\ LET t == "databases" IN
       /\ (col[t].st = "rejected" /\ fs.dirs[t].st = "ok") =>
            Recognized(t, col[t].out.message.cause.path.file)
       /\ (fs.dirs[t].st = "ok"
           /\ \A cn \in DOMAIN fs.conns : \A x \in Range(fs.conns[cn].files) :
                Recognized(t, x.file) => x.rd = "ok") =>
            /\ col[t].st # "rejected"
            /\ col[t].st = "resolved" => col[t].out.t = "seq"
       /\ Resolved(t) =>
            /\ Len(Result(t)) = Cardinality({ e.name : e \in Range(Result(t)) })
            /\ { Unordered(e) : e \in Range(Result(t)) } =
                 { ConnectionWithout(cn) :
                     cn \in { c \in Listed(t) :
                                /\ fs.conns[c].st = "ok"
                                /\ WithoutUnrecognized(t, fs.conns[c].files) # <<>> } }

C12_Witness ==
  \/ \E t \in SingleLevel :
       /\ Resolved(t)
       /\ Result(t) # <<>>
       /\ \E x \in Range(fs.dirs[t].files) : ~Recognized(t, x.file) /\ x.rd # "ok"
  \/ /\ Resolved("databases")
     /\ Result("databases") # <<>>
     /\ \E cn \in DOMAIN fs.conns :
          \E x \in Range(fs.conns[cn].files) : ~Recognized("databases", x.file) /\ x.rd # "ok"

(* the collection of type t that getChanges makes of the collector's result *)
Collection(t, out) ==
  IF t = "databases" THEN unifyDatabases(out, Mappings1) ELSE unifyScripts(out, Mappings1)

(* the result of collector t in the run where the listings complete in listing
   order *)
ReferenceResult(t) ==
  IF t = "databases" THEN DbFinalResult(Root) ELSE FinalResult(t, Root, fs.dirs[t].files)

(* C13: the collection a scan yields is the same for every completion order of
   the listings and the reads: whenever a collector resolves with entities, its
   collection is the collection of the run where the listings complete in
   listing order. *)
C13_SameForEveryCompletionOrder ==
  \A t \in Types :
    Resolved(t) => Collection(t, col[t].out) = Collection(t, SeqVal(ReferenceResult(t)))

(* the empty default of the type t *)
EmptyDefault(t) == IF t = "databases" THEN [t |-> "seq", v |-> <<>>] ELSE [t |-> "map", v |-> <<>>]

(* the raw data of the scan holds nothing for the type t: the document has no
   such key or holds null under it, or the subdirectory is absent *)
MissingFromRawData(t) ==
  \/ fs.lstat = "file" /\ (t \notin DOMAIN fs.doc.v \/ fs.doc.v[t] = [t |-> "null"])
  \/ fs.lstat = "dir" /\ fs.dirs[t].st = "ENOENT"

(* C14: after every successful init, in file mode and in directory mode, each of
   the seven context fields is defined, and the field of a collection missing
   from the raw data is [] for databases and {} for the others. *)
C14_SevenFieldsDefined ==
  call.st = "resolved" =>
    \A t \in Types :
      /\ ctx.fields[t].t \in {"map", "seq"}
      /\ MissingFromRawData(t) => ctx.fields[t] = EmptyDefault(t)

C14_Witness ==
  /\ call.st = "resolved"
  /\ fs.lstat = "file"
  /\ \E t \in DOMAIN fs.doc.v : fs.doc.v[t] = [t |-> "null"]
  /\ \E t \in Types : t \notin DOMAIN fs.doc.v
  /\ \E t \in DOMAIN fs.doc.v : ~MissingFromRawData(t) /\ ctx.fields[t] # EmptyDefault(t)

(* the base names of the .js and .json files of the rules directory *)
RuleNames == { SubSeq(f, 1, Len(f) - 1) : f \in { g \in Listed("rules") : Recognized("rules", g) } }

(* C15: the result of the rules collector has exactly one entry per base name
   that has a .js or a .json file; the entry's script flag is true and its
   script text the content of <name>.js when that file exists, and the flag is
   false and the text missing otherwise; the same for the metadata flag and
   text with <name>.json. *)
C15_OneRulePerBaseName ==
  Resolved("rules") =>
    /\ Len(Result("rules")) = Cardinality(RuleNames)
    /\ { e.name : e \in Range(Result("rules")) } = RuleNames
    /\ \A e \in Range(Result("rules")) :
         /\ IF e.name \o <<"js">> \in Listed("rules")
            THEN /\ e.script = TRUE
                 /\ "scriptFile" \in DOMAIN e
                 /\ e.scriptFile = TextOf("rules", e.name \o <<"js">>)
            ELSE e.script = FALSE /\ "scriptFile" \notin DOMAIN e
         /\ IF e.name \o <<"json">> \in Listed("rules")
            THEN /\ e.metadata = TRUE
                 /\ "metadataFile" \in DOMAIN e
                 /\ e.metadataFile = TextOf("rules", e.name \o <<"json">>)
            ELSE e.metadata = FALSE /\ "metadataFile" \notin DOMAIN e

C15_Witness ==
  /\ Resolved("rules")
  /\ {<<"a", "js">>, <<"a", "json">>, <<"b", "js">>, <<"README", "md">>} = Listed("rules")
  /\ Len(Result("rules")) = 2

(* the text of the file f of the connection directory cn *)
DbTextOf(cn, f) ==
  [text |-> [root |-> Root, dir |-> "database-connections", conn |-> cn, file |-> f]]

(* C16: the result of the connections collector has exactly one entry per
   subdirectory that lists and holds at least one recognized file, named after
   the subdirectory; the entry has one script per recognized script file, with
   the whitelist name and the content of the file, and a configuration text
   exactly when configuration.json is there (a subdirectory with nothing but
   configuration.json gives an entry with no script); a subdirectory without a
   recognized file gives no entry. *)
C16_OneConnectionPerDirectory ==
  DbResolved =>
    /\ Len(DbResult) = Cardinality(ListedConnections)
    /\ \A cn \in ListedConnections :
         \E i \in DOMAIN DbResult :
           LET e == DbResult[i]
               files == { x.file : x \in Range(fs.conns[cn].files) }
               scripts == { f \in files : IsScriptFile(f) }
           IN  /\ e.name = cn
               /\ Len(e.scripts) = Cardinality(scripts)
               /\ Range(e.scripts) =
                    { [name |-> <<f[1]>>, scriptFile |-> DbTextOf(cn, f)] : f \in scripts }
               /\ IF <<"configuration", "json">> \in files
                  THEN /\ "configurationFile" \in DOMAIN e
                       /\ e.configurationFile = DbTextOf(cn, <<"configuration", "json">>)
                  ELSE "configurationFile" \notin DOMAIN e

C16_Witness ==
  /\ DbResolved
  /\ Len(DbResult) = 1
  /\ DbResult[1].name = <<"db2">>
  /\ DbResult[1].scripts = <<>>
  /\ "configurationFile" \in DOMAIN DbResult[1]
  /\ <<"db1">> \in Listed("databases")
  /\ fs.conns[<<"db1">>].files # <<>>

(* the resource labels a message can carry *)
ResourceLabels ==
  {"rules", "rule", "clients", "client", "resourceServers", "resource servers", "resource server",
   "databases", "database", "database scripts", "database connections", "pages", "page",
   "emailTemplates", "email templates", "emailProviders", "email providers"}

(* the words between "Couldn't process " and " directory because: " in the
   message of the collector of type t *)
ResourcePhrase(t) ==
  CASE t = "rules" -> "the rules"
    [] t = "clients" -> "client"
    [] t = "resourceServers" -> "resource server"
    [] t = "databases" -> "database scripts"
    [] t = "pages" -> "pages"
    [] t = "emailTemplates" -> "the email templates"
    [] t = "emailProviders" -> "the email providers"

(* collector t rejected because the listing of its directory failed *)
RejectedOnListing(t) == col[t].st = "rejected" /\ ListingFails(t)

(* C17 as stated: the message of a collector rejected on a listing failure is
   "Couldn't process the <resource> directory because: " followed by the
   underlying message, for each of the seven types. *)
C17_UniformTemplate ==
  \A t \in Types :
    RejectedOnListing(t) =>
      /\ \E r \in ResourceLabels :
           col[t].out.message.prefix = "Couldn't process the " \o r \o " directory because: "
      /\ col[t].out.message.cause = ListingError(t)

(* C17: the message of a collector rejected on a listing failure is "Couldn't
   process " followed by the type's phrase, " directory because: " and the
   underlying message; the phrase is "the rules", "client", "resource server",
   "database scripts", "pages", "the email templates", "the email providers":
   the article is there for three of the seven types only. *)
C17_MessagePerType ==
  \A t \in Types :
    RejectedOnListing(t) =>
      /\ col[t].out.message.prefix
           = "Couldn't process " \o ResourcePhrase(t) \o " directory because: "
      /\ col[t].out.message.path = <<>>
      /\ col[t].out.message.suffix = ""
      /\ col[t].out.message.cause = ListingError(t)

C17_Witness ==
  /\ RejectedOnListing("pages")
  /\ col["pages"].out.message.prefix = "Couldn't process pages directory because: "
  /\ col["pages"].out.message.cause.code = "EACCES"

(* the mappings the init() call has to use: the constructor's when given, else
   those of its argument *)
MappingsToUse ==
  IF call.given # [t |-> "undefined"] THEN call.given
  ELSE IF call.progress = [t |-> "undefined"] THEN [t |-> "undefined"]
  ELSE call.progress.mappings

(* the mappings the texts of the seven context fields were substituted with *)
MappingsInFields ==
  UNION { UNION { { ctx.fields[t].v[n][k].mappings :
                      k \in DOMAIN ctx.fields[t].v[n]
                              \cap {"scriptFile", "metadataFile", "configFile", "htmlFile"} } :
                  n \in DOMAIN ctx.fields[t].v } :
          t \in SingleLevel }
  \cup UNION { { ctx.fields["databases"].v[i].scripts[n].scriptFile.mappings :
                   n \in DOMAIN ctx.fields["databases"].v[i].scripts } :
               i \in DOMAIN ctx.fields["databases"].v }

(* C18: the mappings an init() call hands to getChanges are the constructor's
   when the constructor was given some, and those of the argument of init only
   when it was given none; in directory mode every text of the resulting
   collections was substituted with exactly these mappings. *)
C18_ConstructorMappingsFirst ==
  call.st # "none" =>
    /\ gc.mappings = MappingsToUse
    /\ (call.st = "resolved" /\ fs.lstat = "dir") => MappingsInFields \subseteq {MappingsToUse}

C18_Witness ==
  /\ call.st = "resolved"
  /\ fs.lstat = "dir"
  /\ call.given = Mappings1
  /\ call.progress # Undefined
  /\ call.progress.mappings = Mappings2
  /\ MappingsInFields = {Mappings1}

(* C19: the result of the email-providers collector, and the collection made of
   it, hold at most one entry; there is one exactly when the directory holds
   the fixed provider file default.json, named default with the content of
   that file as its configuration; every other file of the directory is
   skipped. *)
C19_SingleEmailProvider ==
  LET t == "emailProviders" IN
  Resolved(t) =>
    /\ Len(Result(t)) <= 1
    /\ Cardinality(DOMAIN Collection(t, col[t].out).v) <= 1
    /\ Len(Result(t)) = 1 <=> <<"default", "json">> \in Listed(t)
    /\ \A e \in Range(Result(t)) :
         /\ e.name = <<"default">>
         /\ DOMAIN e = {"name", "configFile"}
         /\ e.configFile = TextOf(t, <<"default", "json">>)

C19_Witness ==
  LET t == "emailProviders" IN
  /\ Resolved(t)
  /\ Len(Result(t)) = 1
  /\ {<<"default", "json">>, <<"smtp", "json">>, <<"README", "md">>} = Listed(t)

(* the whitelist of file names of the type t, pages or emailTemplates *)
Whitelist(t) == IF t = "pages" THEN PAGE_NAMES ELSE EMAIL_TEMPLATE_FILENAMES

(* C20: in the results of the pages and email-templates collectors there is one
   entry per base name of a listed whitelisted file and no other entry; the
   entry's html content is the content of the whitelisted <name>.html when it
   is listed and is missing otherwise; its metadata flag is true and its
   metadata the content of the whitelisted <name>.json when that is listed,
   and the flag is false and the metadata missing otherwise. *)
C20_WhitelistedPagesOnly ==
  \A t \in {"pages", "emailTemplates"} :
    Resolved(t) =>
      LET files == Listed(t) \cap Whitelist(t) IN
      /\ Len(Result(t)) = Cardinality({ <<f[1]>> : f \in files })
      /\ { e.name : e \in Range(Result(t)) } = { <<f[1]>> : f \in files }
      /\ \A e \in Range(Result(t)) :
           /\ IF e.name \o <<"html">> \in files
              THEN "htmlFile" \in DOMAIN e /\ e.htmlFile = TextOf(t, e.name \o <<"html">>)
              ELSE "htmlFile" \notin DOMAIN e
           /\ IF e.name \o <<"json">> \in files
              THEN /\ e.metadata = TRUE
                   /\ "metadataFile" \in DOMAIN e
                   /\ e.metadataFile = TextOf(t, e.name \o <<"json">>)
              ELSE e.metadata = FALSE /\ "metadataFile" \notin DOMAIN e

C20_Witness ==
  /\ Resolved("pages")
  /\ {<<"login", "html">>, <<"login", "json">>, <<"login2", "html">>,
      <<"password_reset", "json">>} = Listed("pages")
  /\ Len(Result("pages")) = 2

(* the collectors that were started and have not settled *)
PendingCollectors == { t \in Types : col[t].st \in {"listing", "sublisting", "mapping"} }

(* C21: in directory mode the transform has produced the collections (the
   promise of getChanges is resolved) and context fields are assigned only when
   all seven collectors have resolved; no field is assigned while a collector
   is pending. *)
C21_JoinedBeforePublished ==
  fs.lstat = "dir" =>
    /\ gc.st = "resolved" => \A t \in Types : col[t].st = "resolved"
    /\ Assigned # {} => /\ gc.st = "resolved"
                        /\ \A t \in Types : col[t].st = "resolved"
    /\ PendingCollectors # {} => Assigned = {}

C21_Witness ==
  /\ fs.lstat = "dir"
  /\ call.st = "resolved"
  /\ Assigned = Types
  /\ Cardinality({ t \in Types : col[t].st = "resolved" /\ col[t].out.t = "seq" }) >= 2

(* what getChanges resolves with when no transform was applied to the document *)
RawDocument == IF fs.doc.kind = "null" THEN JSNull ELSE ObjVal(fs.doc.v)

(* C22: a collector is started (and with it a listing issued or a transform
   called) only once getChanges has classified the input path as a directory;
   for a file, a link or a missing path no collector is ever started, the
   promise of getChanges is never left pending on collectors, and what it
   resolves with in file mode is the parsed document, untransformed. *)
C22_CollectorsOnlyForDirectory ==
  /\ (\E t \in Types : col[t] # IdleCollector) => (fs.lstat = "dir" /\ gc.st # "none")
  /\ fs.lstat # "dir" =>
       /\ NoCollectorStarted
       /\ gc.st # "pending"
       /\ gc.st = "resolved" => (fs.lstat = "file" /\ gc.val = RawDocument)

C22_Witness ==
  /\ fs.lstat = "file"
  /\ fs.doc.kind = "object"
  /\ Cardinality(DOMAIN fs.doc.v) >= 2
  /\ gc.mappings # Undefined
  /\ call.st = "resolved"
  /\ NoCollectorStarted

(* C23: after a successful init in directory mode the promise of getChanges
   holds exactly the seven collections, and each context field is the output of
   the transform for its own collector's raw result and the mappings of the
   call: the database transform for databases, the generic one for the other
   six. *)
C23_OneTransformPerCollection ==
  (fs.lstat = "dir" /\ call.st = "resolved") =>
    /\ gc.val.t = "obj"
    /\ DOMAIN gc.val.v = Types
    /\ ctx.fields["databases"] = unifyDatabases(col["databases"].out, gc.mappings)
    /\ \A t \in SingleLevel : ctx.fields[t] = unifyScripts(col[t].out, gc.mappings)

C23_Witness ==
  /\ fs.lstat = "dir"
  /\ call.st = "resolved"
  /\ gc.mappings # Undefined
  /\ ctx.fields["databases"].v # <<>>
  /\ \E t \in SingleLevel : ctx.fields[t].v # <<>>

(* the fields of an entry that hold the content of a file *)
ContentFields == {"scriptFile", "metadataFile", "configFile", "htmlFile"}

(* the content fields of the entry e of type t that hold the text of a listed file *)
FilledFrom(t, e) ==
  { k \in ContentFields \cap DOMAIN e : \E f \in Listed(t) : e[k] = TextOf(t, f) }

(* C24: every entry a single-level collector resolves with has at least one
   content field holding the text of a file of its directory: primary content
   only, metadata only, or both, never neither. *)
C24_NoEmptyEntry ==
  \A t \in SingleLevel :
    Resolved(t) => \A e \in Range(Result(t)) : FilledFrom(t, e) # {}

C24_Witness ==
  LET t == "clients" IN
  /\ Resolved(t)
  /\ \E e \in Range(Result(t)) : FilledFrom(t, e) = {"configFile", "metadataFile"}
  /\ \E e \in Range(Result(t)) : FilledFrom(t, e) = {"metadataFile"}
  /\ \E e \in Range(Result(t)) : FilledFrom(t, e) = {"configFile"}

Settled == {"resolved", "rejected"}

(* C25: when every listing and every read completes eventually, the promise an
   init() call returned is eventually resolved or rejected and no collector it
   started is left pending, whatever the number of entities and the order of
   the completions: the map of two at a time leaves no entity waiting for
   ever. *)
C25_EveryCallSettles ==
  (call.st = "pending") ~> (call.st \in Settled /\ PendingCollectors = {})

C25_Witness ==
  /\ call.st = "resolved"
  /\ \E t \in Types : /\ col[t].st = "resolved"
                      /\ col[t].out.t = "seq"
                      /\ Len(col[t].out.v) > Concurrency

(* C26: in the result of the connections collector the script list of a
   connection holds at most one entry for a script name: of two files of the
   directory that classify to the same name only one, the later, is kept. *)
C26_OneScriptPerName ==
  DbResolved =>
    \A e \in Range(DbResult) :
      \A i, j \in DOMAIN e.scripts : e.scripts[i].name = e.scripts[j].name => i = j

(* C27: a collector resolves with no value (its collection is then the empty
   default) only when the listing of its own directory failed with not-found;
   after a listing that succeeded, a read that fails, with not-found or with
   any other code, never ends the collector that way. *)
C27_EmptyOnlyWhenDirectoryMissing ==
  \A t \in Types :
    (col[t].st = "resolved" /\ col[t].out = Undefined) => fs.dirs[t].st = "ENOENT"

(* the Error getChanges rejects with for a path that is neither file nor directory *)
NotFileOrDirectory ==
  [code |-> "none",
   message |-> [kind |-> "text", prefix |-> "Not sure what to do with, ",
                path |-> FullPath,
                suffix |-> ", it is not a file or directory...",
                cause |-> [kind |-> "none"]]]

(* C28: when the input path is itself a symbolic link, whatever it points to (a
   file, a directory, nothing), it is processed neither as a file nor as a
   directory: no collector is started, no context field is assigned, and init
   rejects with the Error "Not sure what to do with, <resolved input path>, it
   is not a file or directory...". *)
C28_SymlinkInputRejected ==
  (fs.lstat = "symlink" /\ call.st # "none") =>
    /\ gc.st = "rejected"
    /\ gc.val = NotFileOrDirectory
    /\ NoCollectorStarted
    /\ Assigned = {}
    /\ call.st \in {"pending", "rejected"}
    /\ call.st = "rejected" => call.err = NotFileOrDirectory

C28_Witness ==
  /\ fs.lstat = "symlink"
  /\ fs.target = "dir"
  /\ call.st = "rejected"
  /\ call.err = NotFileOrDirectory

(* C29: an init() call that fails always returns a promise and rejects it; no
   call ends with an exception thrown to the caller, also not the call on a
   file whose text is not a well-formed document. *)
C29_FailuresAreRejections ==
  /\ call.st # "threw"
  /\ (fs.lstat = "file" /\ fs.doc.kind = "malformed" /\ call.st # "none") =>
       call.st \in {"pending", "rejected"}

(* the place of the entry cn in the listing of the connections root *)
RootIndex(cn) ==
  CHOOSE i \in DOMAIN fs.dirs["databases"].files : fs.dirs["databases"].files[i].file = cn

(* C30: the connections of the result of the connections collector, and of the
   databases sequence made of it, come in the order of the listing of the
   connections root, whatever the order in which the listings of the
   connection directories complete. *)
C30_ConnectionsInListingOrder ==
  DbResolved =>
    /\ \A i, j \in DOMAIN DbResult :
         i < j => RootIndex(DbResult[i].name) < RootIndex(DbResult[j].name)
    /\ LET dbs == unifyDatabases(col["databases"].out, Undefined).v
       IN  \A i, j \in DOMAIN dbs : i < j => RootIndex(dbs[i].name) < RootIndex(dbs[j].name)

(* the paths the collector of type t holds: classified, being read, read *)
PathsHeld(t) ==
  UNION { { col[t].acc.files[k][f] : f \in DOMAIN col[t].acc.files[k] } :
          k \in DOMAIN col[t].acc.files }
  \cup { r.path : r \in col[t].inflight }
  \cup UNION { { e[k].text : k \in ContentFields \cap DOMAIN e } : e \in Range(col[t].part) }

(* C31: with the clients collector and the resource-servers collector running
   side by side, whatever the interleaving of their listings and reads, every
   path a collector holds is a file of its own directory, and what it resolves
   with is what it resolves with when it runs alone on its directory. *)
C31_NoSharedAccumulator ==
  \A t \in Configurables :
    /\ \A q \in PathsHeld(t) : q.dir = DirOf(t) /\ q.file \in Listed(t)
    /\ Resolved(t) =>
         /\ Result(t) = FinalResult(t, Root, fs.dirs[t].files)
         /\ \A e \in Range(Result(t)) :
              \A k \in ContentFields \cap DOMAIN e : \E f \in Listed(t) : e[k] = TextOf(t, f)

C31_Witness ==
  /\ Resolved("clients") /\ Resolved("resourceServers")
  /\ \E e \in Range(Result("clients")) : \E g \in Range(Result("resourceServers")) :
       /\ e.name = g.name
       /\ DOMAIN e # DOMAIN g
  /\ \E e \in Range(Result("clients")) :
       \A g \in Range(Result("resourceServers")) : e.name # g.name

(* the mappings the argument of the second call carries *)
MappingsOfSecondCall == ProgressMappings(second.call.progress)

(* what the then-callback of a call assigns on the value v of its getChanges *)
FieldsOf(v) == [t \in Types |-> OrElse(Get(v, t), Default(t))]

(* C32: on a context constructed without mappings, the second init() call
   hands to getChanges the mappings of its own argument, whatever the argument
   of the first call was, and in directory mode the fields it assigns are
   substituted with these mappings. *)
C32_EachCallItsOwnMappings ==
  (call.given = Undefined /\ second.call.st # "none") =>
    /\ second.gc.mappings = MappingsOfSecondCall
    /\ (fs.lstat = "dir" /\ second.call.st = "resolved"
        /\ ctx.fields = FieldsOf(second.gc.val)) =>
         MappingsInFields \subseteq {MappingsOfSecondCall}

(* C33: the seven fields of the context are assigned in one step: in every
   state, also with two init() calls in flight on the context, either none of
   the seven is assigned or all seven are what the then-callback of one call
   that has resolved assigned on the value of its own getChanges; never some
   from one call and the others unassigned or from the other call. *)
C33_FieldsFromOneRun ==
  \/ Assigned = {}
  \/ /\ Assigned = Types
     /\ \/ (call.st = "resolved" /\ ctx.fields = FieldsOf(gc.val))
        \/ (second.call.st = "resolved" /\ ctx.fields = FieldsOf(second.gc.val))

C33_Witness ==
  /\ fs.lstat = "dir"
  /\ call.st = "resolved"
  /\ second.call.st = "resolved"
  /\ FieldsOf(gc.val) # FieldsOf(second.gc.val)
  /\ ctx.fields = FieldsOf(gc.val)

====
